---- MODULE Spec2Model ----
(***************************************************************************)
(* Model of the prefer-unicode rule of eslint-plugin-unicode-typography    *)
(* (src/src/rules/prefer-unicode.ts).                                      *)
(*                                                                         *)
(* A text is a sequence of characters; a character is a one-character      *)
(* string, a non-ASCII character is written by its code point ("U+2026"),  *)
(* and the empty string "" is the value the code reads for a missing       *)
(* neighbour.  Offsets are 0-based as in the code: CharAt(text, i) is      *)
(* text[i] of the source.                                                  *)
(***************************************************************************)
EXTENDS Integers, Sequences, FiniteSets, TLC

VARIABLES
    options,        \* the six replacement toggles of context.options[0]
    text,           \* the text of the span being linted
    baseOffset,     \* the offset of the span's first character in the file
    replacements,   \* what the last checkText reported
    pass,           \* number of fix passes already applied to the span
    pc,             \* "visit": span waits for the visitor; "reported": visited;
                    \* during a traversal "walk", or how the last handler ended:
                    \* "checked" (it called checkText) or "skipped"
    scope,          \* the four scope options after defaulting
    jsxElementStack, \* the rule's stack of JSX element names
    ancestors,      \* the nodes the traversal is inside of, outermost first
    node,           \* the node the traversal entered or visited last
    lastIndex,      \* lastIndex of the regular expression of the running scan loop
    doubleQuotePositions \* the array the double quote loop collects (<<>> out of its block)

vars == <<options, text, baseOffset, replacements, pass, pc,
          scope, jsxElementStack, ancestors, node, lastIndex, doubleQuotePositions>>

----------------------------------------------------------------------------
(* Bounds of the model *)

MaxLen == 3
MaxLenQuote == 4
MaxLenFix == 5
MaxLenDots == 7
MaxLenDash == 6
MaxBase == 1
MaxPasses == 2
MaxDepth == 3
MaxLenRaw == 3

----------------------------------------------------------------------------
(* Characters *)

CHARS ==
    [ ELLIPSIS     |-> "U+2026",
      EMDASH       |-> "U+2014",
      ENDASH       |-> "U+2013",
      LEFT_DOUBLE  |-> "U+201C",
      RIGHT_DOUBLE |-> "U+201D",
      LEFT_SINGLE  |-> "U+2018",
      RIGHT_SINGLE |-> "U+2019",
      PRIME        |-> "U+2032",
      DOUBLE_PRIME |-> "U+2033" ]

\* /\d/ : the ASCII digits
DigitChars == {"0", "1", "2", "3", "4", "5", "6", "7", "8", "9"}

LetterChars ==
    {"a", "b", "c", "d", "e", "f", "g", "h", "i", "j", "k", "l", "m",
     "n", "o", "p", "q", "r", "s", "t", "u", "v", "w", "x", "y", "z",
     "A", "B", "C", "D", "E", "F", "G", "H", "I", "J", "K", "L", "M",
     "N", "O", "P", "Q", "R", "S", "T", "U", "V", "W", "X", "Y", "Z"}

\* /\w/ : [A-Za-z0-9_]
WordChars == LetterChars \cup DigitChars \cup {"_"}

\* /\s/ : the white space and line terminator characters of ECMAScript
SpaceChars ==
    {" ", "\t", "\n", "\r", "\f", "U+000B", "U+00A0", "U+1680", "U+2000",
     "U+2001", "U+2002", "U+2003", "U+2004", "U+2005", "U+2006", "U+2007",
     "U+2008", "U+2009", "U+200A", "U+2028", "U+2029", "U+202F", "U+205F",
     "U+3000", "U+FEFF"}

\* /[\s([{]/
OpenerChars == SpaceChars \cup {"(", "[", "{"}

\* text[i] of the source, 0-based
CharAt(t, i) == t[i + 1]

----------------------------------------------------------------------------
(* RegExp.prototype.exec with the g flag, for a pattern that is a sequence  *)
(* of character sets: the indexes of the successive matches, each search    *)
(* resuming at lastIndex = the end of the previous match.                   *)

MatchesAt(t, pat, i) ==
    /\ i + Len(pat) <= Len(t)
    /\ \A j \in 1..Len(pat) : t[i + j] \in pat[j]

RECURSIVE ExecFrom(_, _, _)
ExecFrom(t, pat, fromIndex) ==
    IF fromIndex + Len(pat) > Len(t) THEN <<>>
    ELSE IF MatchesAt(t, pat, fromIndex)
         THEN <<fromIndex>> \o ExecFrom(t, pat, fromIndex + Len(pat))
         ELSE ExecFrom(t, pat, fromIndex + 1)

ExecAll(t, pat) == ExecFrom(t, pat, 0)

ellipsisRegex == << {"."}, {"."}, {"."} >>
emdashRegex == << {"-"}, {"-"} >>
\* mutant: the en dash pattern reads /\s-\s/g
endashRegex_AnySpace == << SpaceChars, {"-"}, SpaceChars >>

endashRegex == << {" "}, {"-"}, {" "} >>
doubleQuoteRegex == << {"\""} >>
singleQuoteRegex == << {"'"} >>
\* mutant: the double prime pattern reads (\w)" instead of (\d)"
doublePrimeRegex_Word == << WordChars, {"\""} >>

doublePrimeRegex == << DigitChars, {"\""} >>

----------------------------------------------------------------------------
(* findReplacements, step by step *)

Replacement(m, s, e, r) ==
    [messageId |-> m, start |-> s, end |-> e, replacement |-> r]

\* mutant: only the first three periods of a run are matched (/(?<!\.)\.\.\./g)
EllipsisPushes_RunOnce(t, b) ==
    LET all == ExecAll(t, ellipsisRegex)
        m == SelectSeq(all, LAMBDA i : i = 0 \/ CharAt(t, i - 1) # ".")
    IN  [k \in 1..Len(m) |->
            Replacement("preferEllipsis", b + m[k], b + m[k] + 3, CHARS.ELLIPSIS)]

\* lines 315-326
EllipsisPushes(t, b) ==
    LET m == ExecAll(t, ellipsisRegex)
    IN  [k \in 1..Len(m) |->
            Replacement("preferEllipsis", b + m[k], b + m[k] + 3, CHARS.ELLIPSIS)]

\* mutant: the em dash edit is three characters long, as the ellipsis edit is
EmdashPushes_Wide(t, b) ==
    LET m == ExecAll(t, emdashRegex)
    IN  [k \in 1..Len(m) |->
            Replacement("preferEmdash", b + m[k], b + m[k] + 3, CHARS.EMDASH)]

\* lines 329-340
EmdashPushes(t, b) ==
    LET m == ExecAll(t, emdashRegex)
    IN  [k \in 1..Len(m) |->
            Replacement("preferEmdash", b + m[k], b + m[k] + 2, CHARS.EMDASH)]

\* lines 343-354
EndashPushes(t, b) ==
    LET m == ExecAll(t, endashRegex)
    IN  [k \in 1..Len(m) |->
            Replacement("preferEndash", b + m[k], b + m[k] + 3, CHARS.ENDASH)]

\* mutant: the parity test is inverted (i % 2 === 1)
DoubleQuotePushes_OddOpens(t, b) ==
    LET quotePositions == ExecAll(t, doubleQuoteRegex)
    IN  [k \in 1..Len(quotePositions) |->
            LET pos == quotePositions[k]
                isOpening == (k - 1) % 2 = 1
            IN  Replacement("preferQuotes", b + pos, b + pos + 1,
                    IF isOpening THEN CHARS.LEFT_DOUBLE ELSE CHARS.RIGHT_DOUBLE)]

\* lines 359-378: the i-th double quote (0-based) opens when i is even
DoubleQuotePushes(t, b) ==
    LET quotePositions == ExecAll(t, doubleQuoteRegex)
    IN  [k \in 1..Len(quotePositions) |->
            LET pos == quotePositions[k]
                isOpening == (k - 1) % 2 = 0
            IN  Replacement("preferQuotes", b + pos, b + pos + 1,
                    IF isOpening THEN CHARS.LEFT_DOUBLE ELSE CHARS.RIGHT_DOUBLE)]

\* mutant: the character before the first one is the last one (text.at(pos - 1))
prevChar_Wrap(t, pos) == IF pos > 0 THEN CharAt(t, pos - 1) ELSE CharAt(t, Len(t) - 1)

\* lines 385-386
prevChar(t, pos) == IF pos > 0 THEN CharAt(t, pos - 1) ELSE ""

\* mutant: the character after the last one is the first one
nextChar_Wrap(t, pos) == IF pos < Len(t) - 1 THEN CharAt(t, pos + 1) ELSE CharAt(t, 0)

nextChar(t, pos) == IF pos < Len(t) - 1 THEN CharAt(t, pos + 1) ELSE ""

\* line 389
isApostrophe(prev, next) == prev \in WordChars /\ next \in WordChars

\* line 392
isYearAbbrev(prev, next, pos) ==
    (prev \in SpaceChars \/ pos = 0) /\ next \in DigitChars

\* line 395
isPrime(prev) == prev \in DigitChars

\* mutant: the opening test forgets the brackets (/\s/ instead of /[\s([{]/)
isOpeningSingle_NoBrackets(prev, pos) == pos = 0 \/ prev \in SpaceChars \/ prev = ""

\* line 428
isOpeningSingle(prev, pos) == pos = 0 \/ prev \in OpenerChars \/ prev = ""

\* mutant: the prime test comes before the apostrophe tests
singleQuoteBranch_PrimeFirst(prev, next, pos) ==
    IF isPrime(prev) THEN "isPrime"
    ELSE IF isApostrophe(prev, next) THEN "isApostrophe"
    ELSE IF isYearAbbrev(prev, next, pos) THEN "isYearAbbrev"
    ELSE "quote"

\* lines 397, 406, 415, 426: the branch of the if / else-if chain that is taken
singleQuoteBranch(prev, next, pos) ==
    IF isApostrophe(prev, next) THEN "isApostrophe"
    ELSE IF isYearAbbrev(prev, next, pos) THEN "isYearAbbrev"
    ELSE IF isPrime(prev) THEN "isPrime"
    ELSE "quote"

\* mutant: the year abbreviation branch pushes without testing checkApostrophes
SingleQuotePush_YearUngated(t, b, opts, pos) ==
    LET prev == prevChar(t, pos)
        next == nextChar(t, pos)
        branch == singleQuoteBranch(prev, next, pos)
    IN  IF branch = "isApostrophe"
        THEN IF opts.apostrophes
             THEN <<Replacement("preferApostrophe", b + pos, b + pos + 1,
                                CHARS.RIGHT_SINGLE)>>
             ELSE <<>>
        ELSE IF branch = "isYearAbbrev"
        THEN <<Replacement("preferApostrophe", b + pos, b + pos + 1,
                           CHARS.RIGHT_SINGLE)>>
        ELSE IF branch = "isPrime"
        THEN IF opts.primes
             THEN <<Replacement("preferPrime", b + pos, b + pos + 1, CHARS.PRIME)>>
             ELSE <<>>
        ELSE IF opts.quotes
        THEN <<Replacement("preferQuotes", b + pos, b + pos + 1,
                   IF isOpeningSingle(prev, pos)
                   THEN CHARS.LEFT_SINGLE ELSE CHARS.RIGHT_SINGLE)>>
        ELSE <<>>

\* mutant: the prime branch is entered only when primes is enabled
\* (else if (isPrime && checkPrimes)), so a disabled prime reaches the quote branch
SingleQuotePush_PrimeFallsThrough(t, b, opts, pos) ==
    LET prev == prevChar(t, pos)
        next == nextChar(t, pos)
        branch == singleQuoteBranch(prev, next, pos)
    IN  IF branch = "isApostrophe"
        THEN IF opts.apostrophes
             THEN <<Replacement("preferApostrophe", b + pos, b + pos + 1,
                                CHARS.RIGHT_SINGLE)>>
             ELSE <<>>
        ELSE IF branch = "isYearAbbrev"
        THEN IF opts.apostrophes
             THEN <<Replacement("preferApostrophe", b + pos, b + pos + 1,
                                CHARS.RIGHT_SINGLE)>>
             ELSE <<>>
        ELSE IF branch = "isPrime" /\ opts.primes
        THEN <<Replacement("preferPrime", b + pos, b + pos + 1, CHARS.PRIME)>>
        ELSE IF opts.quotes
        THEN <<Replacement("preferQuotes", b + pos, b + pos + 1,
                   IF isOpeningSingle(prev, pos)
                   THEN CHARS.LEFT_SINGLE ELSE CHARS.RIGHT_SINGLE)>>
        ELSE <<>>

\* lines 384-435: what one iteration of the single quote loop pushes
SingleQuotePush(t, b, opts, pos) ==
    LET prev == prevChar(t, pos)
        next == nextChar(t, pos)
        branch == singleQuoteBranch(prev, next, pos)
    IN  IF branch = "isApostrophe"
        THEN IF opts.apostrophes
             THEN <<Replacement("preferApostrophe", b + pos, b + pos + 1,
                                CHARS.RIGHT_SINGLE)>>
             ELSE <<>>
        ELSE IF branch = "isYearAbbrev"
        THEN IF opts.apostrophes
             THEN <<Replacement("preferApostrophe", b + pos, b + pos + 1,
                                CHARS.RIGHT_SINGLE)>>
             ELSE <<>>
        ELSE IF branch = "isPrime"
        THEN IF opts.primes
             THEN <<Replacement("preferPrime", b + pos, b + pos + 1, CHARS.PRIME)>>
             ELSE <<>>
        ELSE IF opts.quotes
        THEN <<Replacement("preferQuotes", b + pos, b + pos + 1,
                   IF isOpeningSingle(prev, pos)
                   THEN CHARS.LEFT_SINGLE ELSE CHARS.RIGHT_SINGLE)>>
        ELSE <<>>

RECURSIVE SingleQuoteLoop(_, _, _, _, _)
SingleQuoteLoop(t, b, opts, m, k) ==
    IF k > Len(m) THEN <<>>
    ELSE SingleQuotePush(t, b, opts, m[k]) \o SingleQuoteLoop(t, b, opts, m, k + 1)

\* lines 381-436
SingleQuotePushes(t, b, opts) ==
    SingleQuoteLoop(t, b, opts, ExecAll(t, singleQuoteRegex), 1)

\* Array.prototype.findIndex of lines 444-447, 1-based, 0 when there is none
RECURSIVE FindIndexFrom(_, _, _)
FindIndexFrom(reps, s, k) ==
    IF k > Len(reps) THEN 0
    ELSE IF reps[k].start = s /\ reps[k].messageId = "preferQuotes" THEN k
    ELSE FindIndexFrom(reps, s, k + 1)

existingIdx(reps, s) == FindIndexFrom(reps, s, 1)

\* mutant: the double prime is pushed as one more replacement, the quote edit stays
DoublePrimeStep_Push(reps, b, matchIndex) ==
    LET quotePos == matchIndex + 1
    IN  Append(reps, Replacement("preferPrime", b + quotePos, b + quotePos + 1,
                                 CHARS.DOUBLE_PRIME))

\* mutant: the double prime is written with the prime character
DoublePrimeStep_SinglePrime(reps, b, matchIndex) ==
    LET quotePos == matchIndex + 1
        idx == existingIdx(reps, b + quotePos)
    IN  IF idx # 0
        THEN [reps EXCEPT ![idx] =
                Replacement("preferPrime", b + quotePos, b + quotePos + 1, CHARS.PRIME)]
        ELSE reps

\* mutant: the quote edit is looked up by its span offset (r.start === quotePos)
DoublePrimeStep_Unbased(reps, b, matchIndex) ==
    LET quotePos == matchIndex + 1
        idx == existingIdx(reps, quotePos)
    IN  IF idx # 0
        THEN [reps EXCEPT ![idx] =
                Replacement("preferPrime", b + quotePos, b + quotePos + 1,
                            CHARS.DOUBLE_PRIME)]
        ELSE reps

\* lines 443-455: one iteration of the double prime loop
DoublePrimeStep(reps, b, matchIndex) ==
    LET quotePos == matchIndex + 1
        idx == existingIdx(reps, b + quotePos)
    IN  IF idx # 0
        THEN [reps EXCEPT ![idx] =
                Replacement("preferPrime", b + quotePos, b + quotePos + 1,
                            CHARS.DOUBLE_PRIME)]
        ELSE reps

RECURSIVE DoublePrimeLoop(_, _, _, _)
DoublePrimeLoop(reps, b, m, k) ==
    IF k > Len(m) THEN reps
    ELSE DoublePrimeLoop(DoublePrimeStep(reps, b, m[k]), b, m, k + 1)

\* lines 439-457
DoublePrimeOverride(reps, t, b) ==
    DoublePrimeLoop(reps, b, ExecAll(t, doublePrimeRegex), 1)

\* lines 312-458: the candidates in the order the code pushes them
Candidates(t, b, opts) ==
    LET r1 == IF opts.ellipsis THEN EllipsisPushes(t, b) ELSE <<>>
        r2 == r1 \o (IF opts.emdash THEN EmdashPushes(t, b) ELSE <<>>)
        r3 == r2 \o (IF opts.endash THEN EndashPushes(t, b) ELSE <<>>)
    IN  IF opts.quotes \/ opts.apostrophes \/ opts.primes
        THEN LET r4 == r3 \o (IF opts.quotes THEN DoubleQuotePushes(t, b) ELSE <<>>)
                 r5 == r4 \o SingleQuotePushes(t, b, opts)
             IN  IF opts.primes THEN DoublePrimeOverride(r5, t, b) ELSE r5
        ELSE r3

\* line 461: Array.prototype.sort with (a, b) => a.start - b.start (stable)
RECURSIVE InsertByStart(_, _)
InsertByStart(sorted, r) ==
    IF sorted = <<>> THEN <<r>>
    ELSE IF Head(sorted).start <= r.start
         THEN <<Head(sorted)>> \o InsertByStart(Tail(sorted), r)
         ELSE <<r>> \o sorted

RECURSIVE SortByStart(_)
SortByStart(reps) ==
    IF reps = <<>> THEN <<>>
    ELSE InsertByStart(SortByStart(SubSeq(reps, 1, Len(reps) - 1)), reps[Len(reps)])

\* mutant: the sweep keeps a replacement only when r.start > lastEnd
RECURSIVE FilterFrom_Strict(_, _)
FilterFrom_Strict(reps, lastEnd) ==
    IF reps = <<>> THEN <<>>
    ELSE IF Head(reps).start > lastEnd
         THEN <<Head(reps)>> \o FilterFrom_Strict(Tail(reps), Head(reps).end)
         ELSE FilterFrom_Strict(Tail(reps), lastEnd)

\* lines 464-471: keep a replacement when it starts at or after lastEnd
RECURSIVE FilterFrom(_, _)
FilterFrom(reps, lastEnd) ==
    IF reps = <<>> THEN <<>>
    ELSE IF Head(reps).start >= lastEnd
         THEN <<Head(reps)>> \o FilterFrom(Tail(reps), Head(reps).end)
         ELSE FilterFrom(Tail(reps), lastEnd)

filtered(reps) == FilterFrom(reps, -1)

\* mutant: the candidates are returned as pushed, neither sorted nor swept
findReplacements_Unresolved(t, b, opts) == Candidates(t, b, opts)

\* lines 311-474
findReplacements(t, b, opts) == filtered(SortByStart(Candidates(t, b, opts)))

----------------------------------------------------------------------------
(* The fix of lines 482-484, as the host applies it: every reported range   *)
(* [start, end) is replaced by its replacement, left to right; a fix that   *)
(* starts before the end of the previous one is skipped.                    *)

RECURSIVE FixFrom(_, _, _, _)
FixFrom(t, b, reps, lastPos) ==
    IF reps = <<>> THEN SubSeq(t, lastPos - b + 1, Len(t))
    ELSE LET r == Head(reps)
         IN  IF r.start < lastPos
             THEN FixFrom(t, b, Tail(reps), lastPos)
             ELSE SubSeq(t, lastPos - b + 1, r.start - b)
                    \o <<r.replacement>>
                    \o FixFrom(t, b, Tail(reps), r.end)

applyFixes(t, b, reps) == FixFrom(t, b, SortByStart(reps), b)

----------------------------------------------------------------------------
(* Syntax tree nodes.  A name is a text (a sequence of characters); a node  *)
(* is a record with the fields of the ESTree node that the rule reads.      *)
(* ancestors holds the chain node.parent, node.parent.parent, ... of the    *)
(* node being visited, outermost first, below the Program node.             *)

Program == [type |-> "Program"]

Identifier(n) == [type |-> "Identifier", name |-> n]
MemberExpression(o, p) == [type |-> "MemberExpression", object |-> o, property |-> p]
CallExpression(c) == [type |-> "CallExpression", callee |-> c]
FunctionExpression == [type |-> "FunctionExpression"]
TaggedTemplateExpression(tg) == [type |-> "TaggedTemplateExpression", tag |-> tg]
TemplateLiteral == [type |-> "TemplateLiteral"]
\* a node of a type the rule has no handler for and reads no field of: an
\* ArrayExpression, a ConditionalExpression, a BinaryExpression, a
\* TSTypeParameterInstantiation, a TSTemplateLiteralType (whose chunks are
\* TemplateElement nodes), ...
OtherNode(type) == [type |-> type]
TemplateElement(raw, start) ==
    [type |-> "TemplateElement", value |-> [raw |-> raw], range |-> <<start, start + Len(raw) + 2>>]
StringLiteral(v, start) ==
    [type |-> "Literal", typeofValue |-> "string", value |-> v,
     range |-> <<start, start + Len(v) + 2>>]
NumberLiteral(start) ==
    [type |-> "Literal", typeofValue |-> "number", value |-> <<>>,
     range |-> <<start, start + 1>>]

JSXIdentifier(n) == [type |-> "JSXIdentifier", name |-> n]
JSXMemberExpression(o, p) == [type |-> "JSXMemberExpression", object |-> o, property |-> p]
JSXNamespacedName(ns, n) == [type |-> "JSXNamespacedName", namespace |-> ns, name |-> n]
JSXElement(n) == [type |-> "JSXElement", openingElement |-> [name |-> n]]
JSXFragment == [type |-> "JSXFragment"]
JSXExpressionContainer == [type |-> "JSXExpressionContainer"]
JSXAttribute(n, v) == [type |-> "JSXAttribute", name |-> n, value |-> v]
JSXText(v, start) == [type |-> "JSXText", value |-> v, range |-> <<start, start + Len(v)>>]

\* no node: the value of an attribute without a value, or nothing visited yet
NoNode == [type |-> "none"]

\* the value null of getCalleeName: a text that is no name
null == <<"(null)">>

\* the names that occur in the programs traversed below
Name ==
    [ t |-> <<"t">>,
      i18n |-> <<"i", "1", "8", "n">>,
      i18n_t |-> <<"i", "1", "8", "n", ".", "t">>,
      log |-> <<"l", "o", "g">>,
      join |-> <<"j", "o", "i", "n">>,
      div |-> <<"d", "i", "v">>,
      title |-> <<"t", "i", "t", "l", "e">>,
      gql |-> <<"g", "q", "l">>,
      css |-> <<"c", "s", "s">>,
      styled |-> <<"s", "t", "y", "l", "e", "d">>,
      styled_div |-> <<"s", "t", "y", "l", "e", "d", ".", "d", "i", "v">>,
      alt |-> <<"a", "l", "t">>,
      label |-> <<"l", "a", "b", "e", "l">>,
      aria_label |-> <<"a", "r", "i", "a", "-", "l", "a", "b", "e", "l">>,
      aria_describedby |-> <<"a", "r", "i", "a", "-", "d", "e", "s", "c", "r", "i", "b", "e", "d", "b", "y">>,
      className |-> <<"c", "l", "a", "s", "s", "N", "a", "m", "e">>,
      id |-> <<"i", "d">>,
      href |-> <<"h", "r", "e", "f">>,
      src |-> <<"s", "r", "c">>,
      key |-> <<"k", "e", "y">>,
      data_id |-> <<"d", "a", "t", "a", "-", "i", "d">>,
      placeholder |-> <<"p", "l", "a", "c", "e", "h", "o", "l", "d", "e", "r">>,
      xlink |-> <<"x", "l", "i", "n", "k">>,
      xlink_href |-> <<"x", "l", "i", "n", "k", ":", "h", "r", "e", "f">>,
      p |-> <<"p">>,
      P |-> <<"P">>,
      UI |-> <<"U", "I">>,
      ui_p |-> <<"u", "i", ".", "p">>,
      code |-> <<"c", "o", "d", "e">>,
      pre |-> <<"p", "r", "e">> ]

\* node.parent of a node whose ancestors are anc
parent(anc) == IF anc = <<>> THEN Program ELSE anc[Len(anc)]

\* Array.prototype.join
RECURSIVE join(_, _)
join(parts, sep) ==
    IF parts = <<>> THEN <<>>
    ELSE IF Len(parts) = 1 THEN parts[1]
    ELSE parts[1] \o sep \o join(Tail(parts), sep)

\* The case data of Unicode 17.0 that String.prototype.toLowerCase reads
\* (line 248).  A code unit is written as its character for U+0020 to U+007E
\* (the grave accent apart, which a string of this notation cannot hold) and
\* as "U+XXXX" otherwise; a character beyond U+FFFF is the single token
\* "U+XXXXX".  upperLetters[k] lowers to lowerLetters[k]; cased holds the
\* characters with the property Cased and not Case_Ignorable, caseIgnorable
\* those with Case_Ignorable; surrogates holds <<high surrogate, low
\* surrogate, character>> for the characters beyond U+FFFF of these tables,
\* highSurrogates their high surrogates.
UnicodeData ==
    [ ascii |->
            {
              " ", "!", "\"", "#", "$", "%", "&", "'", "(", ")", "*", "+", ",", "-", ".", "/",
              "0", "1", "2", "3", "4", "5", "6", "7", "8", "9", ":", ";", "<", "=", ">", "?",
              "@", "A", "B", "C", "D", "E", "F", "G", "H", "I", "J", "K", "L", "M", "N", "O",
              "P", "Q", "R", "S", "T", "U", "V", "W", "X", "Y", "Z", "[", "\\", "]", "^", "_",
              "U+0060", "a", "b", "c", "d", "e", "f", "g", "h", "i", "j", "k", "l", "m", "n",
              "o", "p", "q", "r", "s", "t", "u", "v", "w", "x", "y", "z", "{", "|", "}", "~" },
      upperLetters |->
            <<
              "A", "B", "C", "D", "E", "F", "G", "H", "I", "J", "K", "L", "M", "N", "O", "P",
              "Q", "R", "S", "T", "U", "V", "W", "X", "Y", "Z", "U+00C0", "U+00C1", "U+00C2",
              "U+00C3", "U+00C4", "U+00C5", "U+00C6", "U+00C7", "U+00C8", "U+00C9", "U+00CA",
              "U+00CB", "U+00CC", "U+00CD", "U+00CE", "U+00CF", "U+00D0", "U+00D1", "U+00D2",
              "U+00D3", "U+00D4", "U+00D5", "U+00D6", "U+00D8", "U+00D9", "U+00DA", "U+00DB",
              "U+00DC", "U+00DD", "U+00DE", "U+0100", "U+0102", "U+0104", "U+0106", "U+0108",
              "U+010A", "U+010C", "U+010E", "U+0110", "U+0112", "U+0114", "U+0116", "U+0118",
              "U+011A", "U+011C", "U+011E", "U+0120", "U+0122", "U+0124", "U+0126", "U+0128",
              "U+012A", "U+012C", "U+012E", "U+0132", "U+0134", "U+0136", "U+0139", "U+013B",
              "U+013D", "U+013F", "U+0141", "U+0143", "U+0145", "U+0147", "U+014A", "U+014C",
              "U+014E", "U+0150", "U+0152", "U+0154", "U+0156", "U+0158", "U+015A", "U+015C",
              "U+015E", "U+0160", "U+0162", "U+0164", "U+0166", "U+0168", "U+016A", "U+016C",
              "U+016E", "U+0170", "U+0172", "U+0174", "U+0176", "U+0178", "U+0179", "U+017B",
              "U+017D", "U+0181", "U+0182", "U+0184", "U+0186", "U+0187", "U+0189", "U+018A",
              "U+018B", "U+018E", "U+018F", "U+0190", "U+0191", "U+0193", "U+0194", "U+0196",
              "U+0197", "U+0198", "U+019C", "U+019D", "U+019F", "U+01A0", "U+01A2", "U+01A4",
              "U+01A6", "U+01A7", "U+01A9", "U+01AC", "U+01AE", "U+01AF", "U+01B1", "U+01B2",
              "U+01B3", "U+01B5", "U+01B7", "U+01B8", "U+01BC", "U+01C4", "U+01C5", "U+01C7",
              "U+01C8", "U+01CA", "U+01CB", "U+01CD", "U+01CF", "U+01D1", "U+01D3", "U+01D5",
              "U+01D7", "U+01D9", "U+01DB", "U+01DE", "U+01E0", "U+01E2", "U+01E4", "U+01E6",
              "U+01E8", "U+01EA", "U+01EC", "U+01EE", "U+01F1", "U+01F2", "U+01F4", "U+01F6",
              "U+01F7", "U+01F8", "U+01FA", "U+01FC", "U+01FE", "U+0200", "U+0202", "U+0204",
              "U+0206", "U+0208", "U+020A", "U+020C", "U+020E", "U+0210", "U+0212", "U+0214",
              "U+0216", "U+0218", "U+021A", "U+021C", "U+021E", "U+0220", "U+0222", "U+0224",
              "U+0226", "U+0228", "U+022A", "U+022C", "U+022E", "U+0230", "U+0232", "U+023A",
              "U+023B", "U+023D", "U+023E", "U+0241", "U+0243", "U+0244", "U+0245", "U+0246",
              "U+0248", "U+024A", "U+024C", "U+024E", "U+0370", "U+0372", "U+0376", "U+037F",
              "U+0386", "U+0388", "U+0389", "U+038A", "U+038C", "U+038E", "U+038F", "U+0391",
              "U+0392", "U+0393", "U+0394", "U+0395", "U+0396", "U+0397", "U+0398", "U+0399",
              "U+039A", "U+039B", "U+039C", "U+039D", "U+039E", "U+039F", "U+03A0", "U+03A1",
              "U+03A3", "U+03A4", "U+03A5", "U+03A6", "U+03A7", "U+03A8", "U+03A9", "U+03AA",
              "U+03AB", "U+03CF", "U+03D8", "U+03DA", "U+03DC", "U+03DE", "U+03E0", "U+03E2",
              "U+03E4", "U+03E6", "U+03E8", "U+03EA", "U+03EC", "U+03EE", "U+03F4", "U+03F7",
              "U+03F9", "U+03FA", "U+03FD", "U+03FE", "U+03FF", "U+0400", "U+0401", "U+0402",
              "U+0403", "U+0404", "U+0405", "U+0406", "U+0407", "U+0408", "U+0409", "U+040A",
              "U+040B", "U+040C", "U+040D", "U+040E", "U+040F", "U+0410", "U+0411", "U+0412",
              "U+0413", "U+0414", "U+0415", "U+0416", "U+0417", "U+0418", "U+0419", "U+041A",
              "U+041B", "U+041C", "U+041D", "U+041E", "U+041F", "U+0420", "U+0421", "U+0422",
              "U+0423", "U+0424", "U+0425", "U+0426", "U+0427", "U+0428", "U+0429", "U+042A",
              "U+042B", "U+042C", "U+042D", "U+042E", "U+042F", "U+0460", "U+0462", "U+0464",
              "U+0466", "U+0468", "U+046A", "U+046C", "U+046E", "U+0470", "U+0472", "U+0474",
              "U+0476", "U+0478", "U+047A", "U+047C", "U+047E", "U+0480", "U+048A", "U+048C",
              "U+048E", "U+0490", "U+0492", "U+0494", "U+0496", "U+0498", "U+049A", "U+049C",
              "U+049E", "U+04A0", "U+04A2", "U+04A4", "U+04A6", "U+04A8", "U+04AA", "U+04AC",
              "U+04AE", "U+04B0", "U+04B2", "U+04B4", "U+04B6", "U+04B8", "U+04BA", "U+04BC",
              "U+04BE", "U+04C0", "U+04C1", "U+04C3", "U+04C5", "U+04C7", "U+04C9", "U+04CB",
              "U+04CD", "U+04D0", "U+04D2", "U+04D4", "U+04D6", "U+04D8", "U+04DA", "U+04DC",
              "U+04DE", "U+04E0", "U+04E2", "U+04E4", "U+04E6", "U+04E8", "U+04EA", "U+04EC",
              "U+04EE", "U+04F0", "U+04F2", "U+04F4", "U+04F6", "U+04F8", "U+04FA", "U+04FC",
              "U+04FE", "U+0500", "U+0502", "U+0504", "U+0506", "U+0508", "U+050A", "U+050C",
              "U+050E", "U+0510", "U+0512", "U+0514", "U+0516", "U+0518", "U+051A", "U+051C",
              "U+051E", "U+0520", "U+0522", "U+0524", "U+0526", "U+0528", "U+052A", "U+052C",
              "U+052E", "U+0531", "U+0532", "U+0533", "U+0534", "U+0535", "U+0536", "U+0537",
              "U+0538", "U+0539", "U+053A", "U+053B", "U+053C", "U+053D", "U+053E", "U+053F",
              "U+0540", "U+0541", "U+0542", "U+0543", "U+0544", "U+0545", "U+0546", "U+0547",
              "U+0548", "U+0549", "U+054A", "U+054B", "U+054C", "U+054D", "U+054E", "U+054F",
              "U+0550", "U+0551", "U+0552", "U+0553", "U+0554", "U+0555", "U+0556", "U+10A0",
              "U+10A1", "U+10A2", "U+10A3", "U+10A4", "U+10A5", "U+10A6", "U+10A7", "U+10A8",
              "U+10A9", "U+10AA", "U+10AB", "U+10AC", "U+10AD", "U+10AE", "U+10AF", "U+10B0",
              "U+10B1", "U+10B2", "U+10B3", "U+10B4", "U+10B5", "U+10B6", "U+10B7", "U+10B8",
              "U+10B9", "U+10BA", "U+10BB", "U+10BC", "U+10BD", "U+10BE", "U+10BF", "U+10C0",
              "U+10C1", "U+10C2", "U+10C3", "U+10C4", "U+10C5", "U+10C7", "U+10CD", "U+13A0",
              "U+13A1", "U+13A2", "U+13A3", "U+13A4", "U+13A5", "U+13A6", "U+13A7", "U+13A8",
              "U+13A9", "U+13AA", "U+13AB", "U+13AC", "U+13AD", "U+13AE", "U+13AF", "U+13B0",
              "U+13B1", "U+13B2", "U+13B3", "U+13B4", "U+13B5", "U+13B6", "U+13B7", "U+13B8",
              "U+13B9", "U+13BA", "U+13BB", "U+13BC", "U+13BD", "U+13BE", "U+13BF", "U+13C0",
              "U+13C1", "U+13C2", "U+13C3", "U+13C4", "U+13C5", "U+13C6", "U+13C7", "U+13C8",
              "U+13C9", "U+13CA", "U+13CB", "U+13CC", "U+13CD", "U+13CE", "U+13CF", "U+13D0",
              "U+13D1", "U+13D2", "U+13D3", "U+13D4", "U+13D5", "U+13D6", "U+13D7", "U+13D8",
              "U+13D9", "U+13DA", "U+13DB", "U+13DC", "U+13DD", "U+13DE", "U+13DF", "U+13E0",
              "U+13E1", "U+13E2", "U+13E3", "U+13E4", "U+13E5", "U+13E6", "U+13E7", "U+13E8",
              "U+13E9", "U+13EA", "U+13EB", "U+13EC", "U+13ED", "U+13EE", "U+13EF", "U+13F0",
              "U+13F1", "U+13F2", "U+13F3", "U+13F4", "U+13F5", "U+1C89", "U+1C90", "U+1C91",
              "U+1C92", "U+1C93", "U+1C94", "U+1C95", "U+1C96", "U+1C97", "U+1C98", "U+1C99",
              "U+1C9A", "U+1C9B", "U+1C9C", "U+1C9D", "U+1C9E", "U+1C9F", "U+1CA0", "U+1CA1",
              "U+1CA2", "U+1CA3", "U+1CA4", "U+1CA5", "U+1CA6", "U+1CA7", "U+1CA8", "U+1CA9",
              "U+1CAA", "U+1CAB", "U+1CAC", "U+1CAD", "U+1CAE", "U+1CAF", "U+1CB0", "U+1CB1",
              "U+1CB2", "U+1CB3", "U+1CB4", "U+1CB5", "U+1CB6", "U+1CB7", "U+1CB8", "U+1CB9",
              "U+1CBA", "U+1CBD", "U+1CBE", "U+1CBF", "U+1E00", "U+1E02", "U+1E04", "U+1E06",
              "U+1E08", "U+1E0A", "U+1E0C", "U+1E0E", "U+1E10", "U+1E12", "U+1E14", "U+1E16",
              "U+1E18", "U+1E1A", "U+1E1C", "U+1E1E", "U+1E20", "U+1E22", "U+1E24", "U+1E26",
              "U+1E28", "U+1E2A", "U+1E2C", "U+1E2E", "U+1E30", "U+1E32", "U+1E34", "U+1E36",
              "U+1E38", "U+1E3A", "U+1E3C", "U+1E3E", "U+1E40", "U+1E42", "U+1E44", "U+1E46",
              "U+1E48", "U+1E4A", "U+1E4C", "U+1E4E", "U+1E50", "U+1E52", "U+1E54", "U+1E56",
              "U+1E58", "U+1E5A", "U+1E5C", "U+1E5E", "U+1E60", "U+1E62", "U+1E64", "U+1E66",
              "U+1E68", "U+1E6A", "U+1E6C", "U+1E6E", "U+1E70", "U+1E72", "U+1E74", "U+1E76",
              "U+1E78", "U+1E7A", "U+1E7C", "U+1E7E", "U+1E80", "U+1E82", "U+1E84", "U+1E86",
              "U+1E88", "U+1E8A", "U+1E8C", "U+1E8E", "U+1E90", "U+1E92", "U+1E94", "U+1E9E",
              "U+1EA0", "U+1EA2", "U+1EA4", "U+1EA6", "U+1EA8", "U+1EAA", "U+1EAC", "U+1EAE",
              "U+1EB0", "U+1EB2", "U+1EB4", "U+1EB6", "U+1EB8", "U+1EBA", "U+1EBC", "U+1EBE",
              "U+1EC0", "U+1EC2", "U+1EC4", "U+1EC6", "U+1EC8", "U+1ECA", "U+1ECC", "U+1ECE",
              "U+1ED0", "U+1ED2", "U+1ED4", "U+1ED6", "U+1ED8", "U+1EDA", "U+1EDC", "U+1EDE",
              "U+1EE0", "U+1EE2", "U+1EE4", "U+1EE6", "U+1EE8", "U+1EEA", "U+1EEC", "U+1EEE",
              "U+1EF0", "U+1EF2", "U+1EF4", "U+1EF6", "U+1EF8", "U+1EFA", "U+1EFC", "U+1EFE",
              "U+1F08", "U+1F09", "U+1F0A", "U+1F0B", "U+1F0C", "U+1F0D", "U+1F0E", "U+1F0F",
              "U+1F18", "U+1F19", "U+1F1A", "U+1F1B", "U+1F1C", "U+1F1D", "U+1F28", "U+1F29",
              "U+1F2A", "U+1F2B", "U+1F2C", "U+1F2D", "U+1F2E", "U+1F2F", "U+1F38", "U+1F39",
              "U+1F3A", "U+1F3B", "U+1F3C", "U+1F3D", "U+1F3E", "U+1F3F", "U+1F48", "U+1F49",
              "U+1F4A", "U+1F4B", "U+1F4C", "U+1F4D", "U+1F59", "U+1F5B", "U+1F5D", "U+1F5F",
              "U+1F68", "U+1F69", "U+1F6A", "U+1F6B", "U+1F6C", "U+1F6D", "U+1F6E", "U+1F6F",
              "U+1F88", "U+1F89", "U+1F8A", "U+1F8B", "U+1F8C", "U+1F8D", "U+1F8E", "U+1F8F",
              "U+1F98", "U+1F99", "U+1F9A", "U+1F9B", "U+1F9C", "U+1F9D", "U+1F9E", "U+1F9F",
              "U+1FA8", "U+1FA9", "U+1FAA", "U+1FAB", "U+1FAC", "U+1FAD", "U+1FAE", "U+1FAF",
              "U+1FB8", "U+1FB9", "U+1FBA", "U+1FBB", "U+1FBC", "U+1FC8", "U+1FC9", "U+1FCA",
              "U+1FCB", "U+1FCC", "U+1FD8", "U+1FD9", "U+1FDA", "U+1FDB", "U+1FE8", "U+1FE9",
              "U+1FEA", "U+1FEB", "U+1FEC", "U+1FF8", "U+1FF9", "U+1FFA", "U+1FFB", "U+1FFC",
              "U+2126", "U+212A", "U+212B", "U+2132", "U+2160", "U+2161", "U+2162", "U+2163",
              "U+2164", "U+2165", "U+2166", "U+2167", "U+2168", "U+2169", "U+216A", "U+216B",
              "U+216C", "U+216D", "U+216E", "U+216F", "U+2183", "U+24B6", "U+24B7", "U+24B8",
              "U+24B9", "U+24BA", "U+24BB", "U+24BC", "U+24BD", "U+24BE", "U+24BF", "U+24C0",
              "U+24C1", "U+24C2", "U+24C3", "U+24C4", "U+24C5", "U+24C6", "U+24C7", "U+24C8",
              "U+24C9", "U+24CA", "U+24CB", "U+24CC", "U+24CD", "U+24CE", "U+24CF", "U+2C00",
              "U+2C01", "U+2C02", "U+2C03", "U+2C04", "U+2C05", "U+2C06", "U+2C07", "U+2C08",
              "U+2C09", "U+2C0A", "U+2C0B", "U+2C0C", "U+2C0D", "U+2C0E", "U+2C0F", "U+2C10",
              "U+2C11", "U+2C12", "U+2C13", "U+2C14", "U+2C15", "U+2C16", "U+2C17", "U+2C18",
              "U+2C19", "U+2C1A", "U+2C1B", "U+2C1C", "U+2C1D", "U+2C1E", "U+2C1F", "U+2C20",
              "U+2C21", "U+2C22", "U+2C23", "U+2C24", "U+2C25", "U+2C26", "U+2C27", "U+2C28",
              "U+2C29", "U+2C2A", "U+2C2B", "U+2C2C", "U+2C2D", "U+2C2E", "U+2C2F", "U+2C60",
              "U+2C62", "U+2C63", "U+2C64", "U+2C67", "U+2C69", "U+2C6B", "U+2C6D", "U+2C6E",
              "U+2C6F", "U+2C70", "U+2C72", "U+2C75", "U+2C7E", "U+2C7F", "U+2C80", "U+2C82",
              "U+2C84", "U+2C86", "U+2C88", "U+2C8A", "U+2C8C", "U+2C8E", "U+2C90", "U+2C92",
              "U+2C94", "U+2C96", "U+2C98", "U+2C9A", "U+2C9C", "U+2C9E", "U+2CA0", "U+2CA2",
              "U+2CA4", "U+2CA6", "U+2CA8", "U+2CAA", "U+2CAC", "U+2CAE", "U+2CB0", "U+2CB2",
              "U+2CB4", "U+2CB6", "U+2CB8", "U+2CBA", "U+2CBC", "U+2CBE", "U+2CC0", "U+2CC2",
              "U+2CC4", "U+2CC6", "U+2CC8", "U+2CCA", "U+2CCC", "U+2CCE", "U+2CD0", "U+2CD2",
              "U+2CD4", "U+2CD6", "U+2CD8", "U+2CDA", "U+2CDC", "U+2CDE", "U+2CE0", "U+2CE2",
              "U+2CEB", "U+2CED", "U+2CF2", "U+A640", "U+A642", "U+A644", "U+A646", "U+A648",
              "U+A64A", "U+A64C", "U+A64E", "U+A650", "U+A652", "U+A654", "U+A656", "U+A658",
              "U+A65A", "U+A65C", "U+A65E", "U+A660", "U+A662", "U+A664", "U+A666", "U+A668",
              "U+A66A", "U+A66C", "U+A680", "U+A682", "U+A684", "U+A686", "U+A688", "U+A68A",
              "U+A68C", "U+A68E", "U+A690", "U+A692", "U+A694", "U+A696", "U+A698", "U+A69A",
              "U+A722", "U+A724", "U+A726", "U+A728", "U+A72A", "U+A72C", "U+A72E", "U+A732",
              "U+A734", "U+A736", "U+A738", "U+A73A", "U+A73C", "U+A73E", "U+A740", "U+A742",
              "U+A744", "U+A746", "U+A748", "U+A74A", "U+A74C", "U+A74E", "U+A750", "U+A752",
              "U+A754", "U+A756", "U+A758", "U+A75A", "U+A75C", "U+A75E", "U+A760", "U+A762",
              "U+A764", "U+A766", "U+A768", "U+A76A", "U+A76C", "U+A76E", "U+A779", "U+A77B",
              "U+A77D", "U+A77E", "U+A780", "U+A782", "U+A784", "U+A786", "U+A78B", "U+A78D",
              "U+A790", "U+A792", "U+A796", "U+A798", "U+A79A", "U+A79C", "U+A79E", "U+A7A0",
              "U+A7A2", "U+A7A4", "U+A7A6", "U+A7A8", "U+A7AA", "U+A7AB", "U+A7AC", "U+A7AD",
              "U+A7AE", "U+A7B0", "U+A7B1", "U+A7B2", "U+A7B3", "U+A7B4", "U+A7B6", "U+A7B8",
              "U+A7BA", "U+A7BC", "U+A7BE", "U+A7C0", "U+A7C2", "U+A7C4", "U+A7C5", "U+A7C6",
              "U+A7C7", "U+A7C9", "U+A7CB", "U+A7CC", "U+A7CE", "U+A7D0", "U+A7D2", "U+A7D4",
              "U+A7D6", "U+A7D8", "U+A7DA", "U+A7DC", "U+A7F5", "U+FF21", "U+FF22", "U+FF23",
              "U+FF24", "U+FF25", "U+FF26", "U+FF27", "U+FF28", "U+FF29", "U+FF2A", "U+FF2B",
              "U+FF2C", "U+FF2D", "U+FF2E", "U+FF2F", "U+FF30", "U+FF31", "U+FF32", "U+FF33",
              "U+FF34", "U+FF35", "U+FF36", "U+FF37", "U+FF38", "U+FF39", "U+FF3A", "U+10400",
              "U+10401", "U+10402", "U+10403", "U+10404", "U+10405", "U+10406", "U+10407",
              "U+10408", "U+10409", "U+1040A", "U+1040B", "U+1040C", "U+1040D", "U+1040E",
              "U+1040F", "U+10410", "U+10411", "U+10412", "U+10413", "U+10414", "U+10415",
              "U+10416", "U+10417", "U+10418", "U+10419", "U+1041A", "U+1041B", "U+1041C",
              "U+1041D", "U+1041E", "U+1041F", "U+10420", "U+10421", "U+10422", "U+10423",
              "U+10424", "U+10425", "U+10426", "U+10427", "U+104B0", "U+104B1", "U+104B2",
              "U+104B3", "U+104B4", "U+104B5", "U+104B6", "U+104B7", "U+104B8", "U+104B9",
              "U+104BA", "U+104BB", "U+104BC", "U+104BD", "U+104BE", "U+104BF", "U+104C0",
              "U+104C1", "U+104C2", "U+104C3", "U+104C4", "U+104C5", "U+104C6", "U+104C7",
              "U+104C8", "U+104C9", "U+104CA", "U+104CB", "U+104CC", "U+104CD", "U+104CE",
              "U+104CF", "U+104D0", "U+104D1", "U+104D2", "U+104D3", "U+10570", "U+10571",
              "U+10572", "U+10573", "U+10574", "U+10575", "U+10576", "U+10577", "U+10578",
              "U+10579", "U+1057A", "U+1057C", "U+1057D", "U+1057E", "U+1057F", "U+10580",
              "U+10581", "U+10582", "U+10583", "U+10584", "U+10585", "U+10586", "U+10587",
              "U+10588", "U+10589", "U+1058A", "U+1058C", "U+1058D", "U+1058E", "U+1058F",
              "U+10590", "U+10591", "U+10592", "U+10594", "U+10595", "U+10C80", "U+10C81",
              "U+10C82", "U+10C83", "U+10C84", "U+10C85", "U+10C86", "U+10C87", "U+10C88",
              "U+10C89", "U+10C8A", "U+10C8B", "U+10C8C", "U+10C8D", "U+10C8E", "U+10C8F",
              "U+10C90", "U+10C91", "U+10C92", "U+10C93", "U+10C94", "U+10C95", "U+10C96",
              "U+10C97", "U+10C98", "U+10C99", "U+10C9A", "U+10C9B", "U+10C9C", "U+10C9D",
              "U+10C9E", "U+10C9F", "U+10CA0", "U+10CA1", "U+10CA2", "U+10CA3", "U+10CA4",
              "U+10CA5", "U+10CA6", "U+10CA7", "U+10CA8", "U+10CA9", "U+10CAA", "U+10CAB",
              "U+10CAC", "U+10CAD", "U+10CAE", "U+10CAF", "U+10CB0", "U+10CB1", "U+10CB2",
              "U+10D50", "U+10D51", "U+10D52", "U+10D53", "U+10D54", "U+10D55", "U+10D56",
              "U+10D57", "U+10D58", "U+10D59", "U+10D5A", "U+10D5B", "U+10D5C", "U+10D5D",
              "U+10D5E", "U+10D5F", "U+10D60", "U+10D61", "U+10D62", "U+10D63", "U+10D64",
              "U+10D65", "U+118A0", "U+118A1", "U+118A2", "U+118A3", "U+118A4", "U+118A5",
              "U+118A6", "U+118A7", "U+118A8", "U+118A9", "U+118AA", "U+118AB", "U+118AC",
              "U+118AD", "U+118AE", "U+118AF", "U+118B0", "U+118B1", "U+118B2", "U+118B3",
              "U+118B4", "U+118B5", "U+118B6", "U+118B7", "U+118B8", "U+118B9", "U+118BA",
              "U+118BB", "U+118BC", "U+118BD", "U+118BE", "U+118BF", "U+16E40", "U+16E41",
              "U+16E42", "U+16E43", "U+16E44", "U+16E45", "U+16E46", "U+16E47", "U+16E48",
              "U+16E49", "U+16E4A", "U+16E4B", "U+16E4C", "U+16E4D", "U+16E4E", "U+16E4F",
              "U+16E50", "U+16E51", "U+16E52", "U+16E53", "U+16E54", "U+16E55", "U+16E56",
              "U+16E57", "U+16E58", "U+16E59", "U+16E5A", "U+16E5B", "U+16E5C", "U+16E5D",
              "U+16E5E", "U+16E5F", "U+16EA0", "U+16EA1", "U+16EA2", "U+16EA3", "U+16EA4",
              "U+16EA5", "U+16EA6", "U+16EA7", "U+16EA8", "U+16EA9", "U+16EAA", "U+16EAB",
              "U+16EAC", "U+16EAD", "U+16EAE", "U+16EAF", "U+16EB0", "U+16EB1", "U+16EB2",
              "U+16EB3", "U+16EB4", "U+16EB5", "U+16EB6", "U+16EB7", "U+16EB8", "U+1E900",
              "U+1E901", "U+1E902", "U+1E903", "U+1E904", "U+1E905", "U+1E906", "U+1E907",
              "U+1E908", "U+1E909", "U+1E90A", "U+1E90B", "U+1E90C", "U+1E90D", "U+1E90E",
              "U+1E90F", "U+1E910", "U+1E911", "U+1E912", "U+1E913", "U+1E914", "U+1E915",
              "U+1E916", "U+1E917", "U+1E918", "U+1E919", "U+1E91A", "U+1E91B", "U+1E91C",
              "U+1E91D", "U+1E91E", "U+1E91F", "U+1E920", "U+1E921" >>,
      lowerLetters |->
            <<
              "a", "b", "c", "d", "e", "f", "g", "h", "i", "j", "k", "l", "m", "n", "o", "p",
              "q", "r", "s", "t", "u", "v", "w", "x", "y", "z", "U+00E0", "U+00E1", "U+00E2",
              "U+00E3", "U+00E4", "U+00E5", "U+00E6", "U+00E7", "U+00E8", "U+00E9", "U+00EA",
              "U+00EB", "U+00EC", "U+00ED", "U+00EE", "U+00EF", "U+00F0", "U+00F1", "U+00F2",
              "U+00F3", "U+00F4", "U+00F5", "U+00F6", "U+00F8", "U+00F9", "U+00FA", "U+00FB",
              "U+00FC", "U+00FD", "U+00FE", "U+0101", "U+0103", "U+0105", "U+0107", "U+0109",
              "U+010B", "U+010D", "U+010F", "U+0111", "U+0113", "U+0115", "U+0117", "U+0119",
              "U+011B", "U+011D", "U+011F", "U+0121", "U+0123", "U+0125", "U+0127", "U+0129",
              "U+012B", "U+012D", "U+012F", "U+0133", "U+0135", "U+0137", "U+013A", "U+013C",
              "U+013E", "U+0140", "U+0142", "U+0144", "U+0146", "U+0148", "U+014B", "U+014D",
              "U+014F", "U+0151", "U+0153", "U+0155", "U+0157", "U+0159", "U+015B", "U+015D",
              "U+015F", "U+0161", "U+0163", "U+0165", "U+0167", "U+0169", "U+016B", "U+016D",
              "U+016F", "U+0171", "U+0173", "U+0175", "U+0177", "U+00FF", "U+017A", "U+017C",
              "U+017E", "U+0253", "U+0183", "U+0185", "U+0254", "U+0188", "U+0256", "U+0257",
              "U+018C", "U+01DD", "U+0259", "U+025B", "U+0192", "U+0260", "U+0263", "U+0269",
              "U+0268", "U+0199", "U+026F", "U+0272", "U+0275", "U+01A1", "U+01A3", "U+01A5",
              "U+0280", "U+01A8", "U+0283", "U+01AD", "U+0288", "U+01B0", "U+028A", "U+028B",
              "U+01B4", "U+01B6", "U+0292", "U+01B9", "U+01BD", "U+01C6", "U+01C6", "U+01C9",
              "U+01C9", "U+01CC", "U+01CC", "U+01CE", "U+01D0", "U+01D2", "U+01D4", "U+01D6",
              "U+01D8", "U+01DA", "U+01DC", "U+01DF", "U+01E1", "U+01E3", "U+01E5", "U+01E7",
              "U+01E9", "U+01EB", "U+01ED", "U+01EF", "U+01F3", "U+01F3", "U+01F5", "U+0195",
              "U+01BF", "U+01F9", "U+01FB", "U+01FD", "U+01FF", "U+0201", "U+0203", "U+0205",
              "U+0207", "U+0209", "U+020B", "U+020D", "U+020F", "U+0211", "U+0213", "U+0215",
              "U+0217", "U+0219", "U+021B", "U+021D", "U+021F", "U+019E", "U+0223", "U+0225",
              "U+0227", "U+0229", "U+022B", "U+022D", "U+022F", "U+0231", "U+0233", "U+2C65",
              "U+023C", "U+019A", "U+2C66", "U+0242", "U+0180", "U+0289", "U+028C", "U+0247",
              "U+0249", "U+024B", "U+024D", "U+024F", "U+0371", "U+0373", "U+0377", "U+03F3",
              "U+03AC", "U+03AD", "U+03AE", "U+03AF", "U+03CC", "U+03CD", "U+03CE", "U+03B1",
              "U+03B2", "U+03B3", "U+03B4", "U+03B5", "U+03B6", "U+03B7", "U+03B8", "U+03B9",
              "U+03BA", "U+03BB", "U+03BC", "U+03BD", "U+03BE", "U+03BF", "U+03C0", "U+03C1",
              "U+03C3", "U+03C4", "U+03C5", "U+03C6", "U+03C7", "U+03C8", "U+03C9", "U+03CA",
              "U+03CB", "U+03D7", "U+03D9", "U+03DB", "U+03DD", "U+03DF", "U+03E1", "U+03E3",
              "U+03E5", "U+03E7", "U+03E9", "U+03EB", "U+03ED", "U+03EF", "U+03B8", "U+03F8",
              "U+03F2", "U+03FB", "U+037B", "U+037C", "U+037D", "U+0450", "U+0451", "U+0452",
              "U+0453", "U+0454", "U+0455", "U+0456", "U+0457", "U+0458", "U+0459", "U+045A",
              "U+045B", "U+045C", "U+045D", "U+045E", "U+045F", "U+0430", "U+0431", "U+0432",
              "U+0433", "U+0434", "U+0435", "U+0436", "U+0437", "U+0438", "U+0439", "U+043A",
              "U+043B", "U+043C", "U+043D", "U+043E", "U+043F", "U+0440", "U+0441", "U+0442",
              "U+0443", "U+0444", "U+0445", "U+0446", "U+0447", "U+0448", "U+0449", "U+044A",
              "U+044B", "U+044C", "U+044D", "U+044E", "U+044F", "U+0461", "U+0463", "U+0465",
              "U+0467", "U+0469", "U+046B", "U+046D", "U+046F", "U+0471", "U+0473", "U+0475",
              "U+0477", "U+0479", "U+047B", "U+047D", "U+047F", "U+0481", "U+048B", "U+048D",
              "U+048F", "U+0491", "U+0493", "U+0495", "U+0497", "U+0499", "U+049B", "U+049D",
              "U+049F", "U+04A1", "U+04A3", "U+04A5", "U+04A7", "U+04A9", "U+04AB", "U+04AD",
              "U+04AF", "U+04B1", "U+04B3", "U+04B5", "U+04B7", "U+04B9", "U+04BB", "U+04BD",
              "U+04BF", "U+04CF", "U+04C2", "U+04C4", "U+04C6", "U+04C8", "U+04CA", "U+04CC",
              "U+04CE", "U+04D1", "U+04D3", "U+04D5", "U+04D7", "U+04D9", "U+04DB", "U+04DD",
              "U+04DF", "U+04E1", "U+04E3", "U+04E5", "U+04E7", "U+04E9", "U+04EB", "U+04ED",
              "U+04EF", "U+04F1", "U+04F3", "U+04F5", "U+04F7", "U+04F9", "U+04FB", "U+04FD",
              "U+04FF", "U+0501", "U+0503", "U+0505", "U+0507", "U+0509", "U+050B", "U+050D",
              "U+050F", "U+0511", "U+0513", "U+0515", "U+0517", "U+0519", "U+051B", "U+051D",
              "U+051F", "U+0521", "U+0523", "U+0525", "U+0527", "U+0529", "U+052B", "U+052D",
              "U+052F", "U+0561", "U+0562", "U+0563", "U+0564", "U+0565", "U+0566", "U+0567",
              "U+0568", "U+0569", "U+056A", "U+056B", "U+056C", "U+056D", "U+056E", "U+056F",
              "U+0570", "U+0571", "U+0572", "U+0573", "U+0574", "U+0575", "U+0576", "U+0577",
              "U+0578", "U+0579", "U+057A", "U+057B", "U+057C", "U+057D", "U+057E", "U+057F",
              "U+0580", "U+0581", "U+0582", "U+0583", "U+0584", "U+0585", "U+0586", "U+2D00",
              "U+2D01", "U+2D02", "U+2D03", "U+2D04", "U+2D05", "U+2D06", "U+2D07", "U+2D08",
              "U+2D09", "U+2D0A", "U+2D0B", "U+2D0C", "U+2D0D", "U+2D0E", "U+2D0F", "U+2D10",
              "U+2D11", "U+2D12", "U+2D13", "U+2D14", "U+2D15", "U+2D16", "U+2D17", "U+2D18",
              "U+2D19", "U+2D1A", "U+2D1B", "U+2D1C", "U+2D1D", "U+2D1E", "U+2D1F", "U+2D20",
              "U+2D21", "U+2D22", "U+2D23", "U+2D24", "U+2D25", "U+2D27", "U+2D2D", "U+AB70",
              "U+AB71", "U+AB72", "U+AB73", "U+AB74", "U+AB75", "U+AB76", "U+AB77", "U+AB78",
              "U+AB79", "U+AB7A", "U+AB7B", "U+AB7C", "U+AB7D", "U+AB7E", "U+AB7F", "U+AB80",
              "U+AB81", "U+AB82", "U+AB83", "U+AB84", "U+AB85", "U+AB86", "U+AB87", "U+AB88",
              "U+AB89", "U+AB8A", "U+AB8B", "U+AB8C", "U+AB8D", "U+AB8E", "U+AB8F", "U+AB90",
              "U+AB91", "U+AB92", "U+AB93", "U+AB94", "U+AB95", "U+AB96", "U+AB97", "U+AB98",
              "U+AB99", "U+AB9A", "U+AB9B", "U+AB9C", "U+AB9D", "U+AB9E", "U+AB9F", "U+ABA0",
              "U+ABA1", "U+ABA2", "U+ABA3", "U+ABA4", "U+ABA5", "U+ABA6", "U+ABA7", "U+ABA8",
              "U+ABA9", "U+ABAA", "U+ABAB", "U+ABAC", "U+ABAD", "U+ABAE", "U+ABAF", "U+ABB0",
              "U+ABB1", "U+ABB2", "U+ABB3", "U+ABB4", "U+ABB5", "U+ABB6", "U+ABB7", "U+ABB8",
              "U+ABB9", "U+ABBA", "U+ABBB", "U+ABBC", "U+ABBD", "U+ABBE", "U+ABBF", "U+13F8",
              "U+13F9", "U+13FA", "U+13FB", "U+13FC", "U+13FD", "U+1C8A", "U+10D0", "U+10D1",
              "U+10D2", "U+10D3", "U+10D4", "U+10D5", "U+10D6", "U+10D7", "U+10D8", "U+10D9",
              "U+10DA", "U+10DB", "U+10DC", "U+10DD", "U+10DE", "U+10DF", "U+10E0", "U+10E1",
              "U+10E2", "U+10E3", "U+10E4", "U+10E5", "U+10E6", "U+10E7", "U+10E8", "U+10E9",
              "U+10EA", "U+10EB", "U+10EC", "U+10ED", "U+10EE", "U+10EF", "U+10F0", "U+10F1",
              "U+10F2", "U+10F3", "U+10F4", "U+10F5", "U+10F6", "U+10F7", "U+10F8", "U+10F9",
              "U+10FA", "U+10FD", "U+10FE", "U+10FF", "U+1E01", "U+1E03", "U+1E05", "U+1E07",
              "U+1E09", "U+1E0B", "U+1E0D", "U+1E0F", "U+1E11", "U+1E13", "U+1E15", "U+1E17",
              "U+1E19", "U+1E1B", "U+1E1D", "U+1E1F", "U+1E21", "U+1E23", "U+1E25", "U+1E27",
              "U+1E29", "U+1E2B", "U+1E2D", "U+1E2F", "U+1E31", "U+1E33", "U+1E35", "U+1E37",
              "U+1E39", "U+1E3B", "U+1E3D", "U+1E3F", "U+1E41", "U+1E43", "U+1E45", "U+1E47",
              "U+1E49", "U+1E4B", "U+1E4D", "U+1E4F", "U+1E51", "U+1E53", "U+1E55", "U+1E57",
              "U+1E59", "U+1E5B", "U+1E5D", "U+1E5F", "U+1E61", "U+1E63", "U+1E65", "U+1E67",
              "U+1E69", "U+1E6B", "U+1E6D", "U+1E6F", "U+1E71", "U+1E73", "U+1E75", "U+1E77",
              "U+1E79", "U+1E7B", "U+1E7D", "U+1E7F", "U+1E81", "U+1E83", "U+1E85", "U+1E87",
              "U+1E89", "U+1E8B", "U+1E8D", "U+1E8F", "U+1E91", "U+1E93", "U+1E95", "U+00DF",
              "U+1EA1", "U+1EA3", "U+1EA5", "U+1EA7", "U+1EA9", "U+1EAB", "U+1EAD", "U+1EAF",
              "U+1EB1", "U+1EB3", "U+1EB5", "U+1EB7", "U+1EB9", "U+1EBB", "U+1EBD", "U+1EBF",
              "U+1EC1", "U+1EC3", "U+1EC5", "U+1EC7", "U+1EC9", "U+1ECB", "U+1ECD", "U+1ECF",
              "U+1ED1", "U+1ED3", "U+1ED5", "U+1ED7", "U+1ED9", "U+1EDB", "U+1EDD", "U+1EDF",
              "U+1EE1", "U+1EE3", "U+1EE5", "U+1EE7", "U+1EE9", "U+1EEB", "U+1EED", "U+1EEF",
              "U+1EF1", "U+1EF3", "U+1EF5", "U+1EF7", "U+1EF9", "U+1EFB", "U+1EFD", "U+1EFF",
              "U+1F00", "U+1F01", "U+1F02", "U+1F03", "U+1F04", "U+1F05", "U+1F06", "U+1F07",
              "U+1F10", "U+1F11", "U+1F12", "U+1F13", "U+1F14", "U+1F15", "U+1F20", "U+1F21",
              "U+1F22", "U+1F23", "U+1F24", "U+1F25", "U+1F26", "U+1F27", "U+1F30", "U+1F31",
              "U+1F32", "U+1F33", "U+1F34", "U+1F35", "U+1F36", "U+1F37", "U+1F40", "U+1F41",
              "U+1F42", "U+1F43", "U+1F44", "U+1F45", "U+1F51", "U+1F53", "U+1F55", "U+1F57",
              "U+1F60", "U+1F61", "U+1F62", "U+1F63", "U+1F64", "U+1F65", "U+1F66", "U+1F67",
              "U+1F80", "U+1F81", "U+1F82", "U+1F83", "U+1F84", "U+1F85", "U+1F86", "U+1F87",
              "U+1F90", "U+1F91", "U+1F92", "U+1F93", "U+1F94", "U+1F95", "U+1F96", "U+1F97",
              "U+1FA0", "U+1FA1", "U+1FA2", "U+1FA3", "U+1FA4", "U+1FA5", "U+1FA6", "U+1FA7",
              "U+1FB0", "U+1FB1", "U+1F70", "U+1F71", "U+1FB3", "U+1F72", "U+1F73", "U+1F74",
              "U+1F75", "U+1FC3", "U+1FD0", "U+1FD1", "U+1F76", "U+1F77", "U+1FE0", "U+1FE1",
              "U+1F7A", "U+1F7B", "U+1FE5", "U+1F78", "U+1F79", "U+1F7C", "U+1F7D", "U+1FF3",
              "U+03C9", "k", "U+00E5", "U+214E", "U+2170", "U+2171", "U+2172", "U+2173",
              "U+2174", "U+2175", "U+2176", "U+2177", "U+2178", "U+2179", "U+217A", "U+217B",
              "U+217C", "U+217D", "U+217E", "U+217F", "U+2184", "U+24D0", "U+24D1", "U+24D2",
              "U+24D3", "U+24D4", "U+24D5", "U+24D6", "U+24D7", "U+24D8", "U+24D9", "U+24DA",
              "U+24DB", "U+24DC", "U+24DD", "U+24DE", "U+24DF", "U+24E0", "U+24E1", "U+24E2",
              "U+24E3", "U+24E4", "U+24E5", "U+24E6", "U+24E7", "U+24E8", "U+24E9", "U+2C30",
              "U+2C31", "U+2C32", "U+2C33", "U+2C34", "U+2C35", "U+2C36", "U+2C37", "U+2C38",
              "U+2C39", "U+2C3A", "U+2C3B", "U+2C3C", "U+2C3D", "U+2C3E", "U+2C3F", "U+2C40",
              "U+2C41", "U+2C42", "U+2C43", "U+2C44", "U+2C45", "U+2C46", "U+2C47", "U+2C48",
              "U+2C49", "U+2C4A", "U+2C4B", "U+2C4C", "U+2C4D", "U+2C4E", "U+2C4F", "U+2C50",
              "U+2C51", "U+2C52", "U+2C53", "U+2C54", "U+2C55", "U+2C56", "U+2C57", "U+2C58",
              "U+2C59", "U+2C5A", "U+2C5B", "U+2C5C", "U+2C5D", "U+2C5E", "U+2C5F", "U+2C61",
              "U+026B", "U+1D7D", "U+027D", "U+2C68", "U+2C6A", "U+2C6C", "U+0251", "U+0271",
              "U+0250", "U+0252", "U+2C73", "U+2C76", "U+023F", "U+0240", "U+2C81", "U+2C83",
              "U+2C85", "U+2C87", "U+2C89", "U+2C8B", "U+2C8D", "U+2C8F", "U+2C91", "U+2C93",
              "U+2C95", "U+2C97", "U+2C99", "U+2C9B", "U+2C9D", "U+2C9F", "U+2CA1", "U+2CA3",
              "U+2CA5", "U+2CA7", "U+2CA9", "U+2CAB", "U+2CAD", "U+2CAF", "U+2CB1", "U+2CB3",
              "U+2CB5", "U+2CB7", "U+2CB9", "U+2CBB", "U+2CBD", "U+2CBF", "U+2CC1", "U+2CC3",
              "U+2CC5", "U+2CC7", "U+2CC9", "U+2CCB", "U+2CCD", "U+2CCF", "U+2CD1", "U+2CD3",
              "U+2CD5", "U+2CD7", "U+2CD9", "U+2CDB", "U+2CDD", "U+2CDF", "U+2CE1", "U+2CE3",
              "U+2CEC", "U+2CEE", "U+2CF3", "U+A641", "U+A643", "U+A645", "U+A647", "U+A649",
              "U+A64B", "U+A64D", "U+A64F", "U+A651", "U+A653", "U+A655", "U+A657", "U+A659",
              "U+A65B", "U+A65D", "U+A65F", "U+A661", "U+A663", "U+A665", "U+A667", "U+A669",
              "U+A66B", "U+A66D", "U+A681", "U+A683", "U+A685", "U+A687", "U+A689", "U+A68B",
              "U+A68D", "U+A68F", "U+A691", "U+A693", "U+A695", "U+A697", "U+A699", "U+A69B",
              "U+A723", "U+A725", "U+A727", "U+A729", "U+A72B", "U+A72D", "U+A72F", "U+A733",
              "U+A735", "U+A737", "U+A739", "U+A73B", "U+A73D", "U+A73F", "U+A741", "U+A743",
              "U+A745", "U+A747", "U+A749", "U+A74B", "U+A74D", "U+A74F", "U+A751", "U+A753",
              "U+A755", "U+A757", "U+A759", "U+A75B", "U+A75D", "U+A75F", "U+A761", "U+A763",
              "U+A765", "U+A767", "U+A769", "U+A76B", "U+A76D", "U+A76F", "U+A77A", "U+A77C",
              "U+1D79", "U+A77F", "U+A781", "U+A783", "U+A785", "U+A787", "U+A78C", "U+0265",
              "U+A791", "U+A793", "U+A797", "U+A799", "U+A79B", "U+A79D", "U+A79F", "U+A7A1",
              "U+A7A3", "U+A7A5", "U+A7A7", "U+A7A9", "U+0266", "U+025C", "U+0261", "U+026C",
              "U+026A", "U+029E", "U+0287", "U+029D", "U+AB53", "U+A7B5", "U+A7B7", "U+A7B9",
              "U+A7BB", "U+A7BD", "U+A7BF", "U+A7C1", "U+A7C3", "U+A794", "U+0282", "U+1D8E",
              "U+A7C8", "U+A7CA", "U+0264", "U+A7CD", "U+A7CF", "U+A7D1", "U+A7D3", "U+A7D5",
              "U+A7D7", "U+A7D9", "U+A7DB", "U+019B", "U+A7F6", "U+FF41", "U+FF42", "U+FF43",
              "U+FF44", "U+FF45", "U+FF46", "U+FF47", "U+FF48", "U+FF49", "U+FF4A", "U+FF4B",
              "U+FF4C", "U+FF4D", "U+FF4E", "U+FF4F", "U+FF50", "U+FF51", "U+FF52", "U+FF53",
              "U+FF54", "U+FF55", "U+FF56", "U+FF57", "U+FF58", "U+FF59", "U+FF5A", "U+10428",
              "U+10429", "U+1042A", "U+1042B", "U+1042C", "U+1042D", "U+1042E", "U+1042F",
              "U+10430", "U+10431", "U+10432", "U+10433", "U+10434", "U+10435", "U+10436",
              "U+10437", "U+10438", "U+10439", "U+1043A", "U+1043B", "U+1043C", "U+1043D",
              "U+1043E", "U+1043F", "U+10440", "U+10441", "U+10442", "U+10443", "U+10444",
              "U+10445", "U+10446", "U+10447", "U+10448", "U+10449", "U+1044A", "U+1044B",
              "U+1044C", "U+1044D", "U+1044E", "U+1044F", "U+104D8", "U+104D9", "U+104DA",
              "U+104DB", "U+104DC", "U+104DD", "U+104DE", "U+104DF", "U+104E0", "U+104E1",
              "U+104E2", "U+104E3", "U+104E4", "U+104E5", "U+104E6", "U+104E7", "U+104E8",
              "U+104E9", "U+104EA", "U+104EB", "U+104EC", "U+104ED", "U+104EE", "U+104EF",
              "U+104F0", "U+104F1", "U+104F2", "U+104F3", "U+104F4", "U+104F5", "U+104F6",
              "U+104F7", "U+104F8", "U+104F9", "U+104FA", "U+104FB", "U+10597", "U+10598",
              "U+10599", "U+1059A", "U+1059B", "U+1059C", "U+1059D", "U+1059E", "U+1059F",
              "U+105A0", "U+105A1", "U+105A3", "U+105A4", "U+105A5", "U+105A6", "U+105A7",
              "U+105A8", "U+105A9", "U+105AA", "U+105AB", "U+105AC", "U+105AD", "U+105AE",
              "U+105AF", "U+105B0", "U+105B1", "U+105B3", "U+105B4", "U+105B5", "U+105B6",
              "U+105B7", "U+105B8", "U+105B9", "U+105BB", "U+105BC", "U+10CC0", "U+10CC1",
              "U+10CC2", "U+10CC3", "U+10CC4", "U+10CC5", "U+10CC6", "U+10CC7", "U+10CC8",
              "U+10CC9", "U+10CCA", "U+10CCB", "U+10CCC", "U+10CCD", "U+10CCE", "U+10CCF",
              "U+10CD0", "U+10CD1", "U+10CD2", "U+10CD3", "U+10CD4", "U+10CD5", "U+10CD6",
              "U+10CD7", "U+10CD8", "U+10CD9", "U+10CDA", "U+10CDB", "U+10CDC", "U+10CDD",
              "U+10CDE", "U+10CDF", "U+10CE0", "U+10CE1", "U+10CE2", "U+10CE3", "U+10CE4",
              "U+10CE5", "U+10CE6", "U+10CE7", "U+10CE8", "U+10CE9", "U+10CEA", "U+10CEB",
              "U+10CEC", "U+10CED", "U+10CEE", "U+10CEF", "U+10CF0", "U+10CF1", "U+10CF2",
              "U+10D70", "U+10D71", "U+10D72", "U+10D73", "U+10D74", "U+10D75", "U+10D76",
              "U+10D77", "U+10D78", "U+10D79", "U+10D7A", "U+10D7B", "U+10D7C", "U+10D7D",
              "U+10D7E", "U+10D7F", "U+10D80", "U+10D81", "U+10D82", "U+10D83", "U+10D84",
              "U+10D85", "U+118C0", "U+118C1", "U+118C2", "U+118C3", "U+118C4", "U+118C5",
              "U+118C6", "U+118C7", "U+118C8", "U+118C9", "U+118CA", "U+118CB", "U+118CC",
              "U+118CD", "U+118CE", "U+118CF", "U+118D0", "U+118D1", "U+118D2", "U+118D3",
              "U+118D4", "U+118D5", "U+118D6", "U+118D7", "U+118D8", "U+118D9", "U+118DA",
              "U+118DB", "U+118DC", "U+118DD", "U+118DE", "U+118DF", "U+16E60", "U+16E61",
              "U+16E62", "U+16E63", "U+16E64", "U+16E65", "U+16E66", "U+16E67", "U+16E68",
              "U+16E69", "U+16E6A", "U+16E6B", "U+16E6C", "U+16E6D", "U+16E6E", "U+16E6F",
              "U+16E70", "U+16E71", "U+16E72", "U+16E73", "U+16E74", "U+16E75", "U+16E76",
              "U+16E77", "U+16E78", "U+16E79", "U+16E7A", "U+16E7B", "U+16E7C", "U+16E7D",
              "U+16E7E", "U+16E7F", "U+16EBB", "U+16EBC", "U+16EBD", "U+16EBE", "U+16EBF",
              "U+16EC0", "U+16EC1", "U+16EC2", "U+16EC3", "U+16EC4", "U+16EC5", "U+16EC6",
              "U+16EC7", "U+16EC8", "U+16EC9", "U+16ECA", "U+16ECB", "U+16ECC", "U+16ECD",
              "U+16ECE", "U+16ECF", "U+16ED0", "U+16ED1", "U+16ED2", "U+16ED3", "U+1E922",
              "U+1E923", "U+1E924", "U+1E925", "U+1E926", "U+1E927", "U+1E928", "U+1E929",
              "U+1E92A", "U+1E92B", "U+1E92C", "U+1E92D", "U+1E92E", "U+1E92F", "U+1E930",
              "U+1E931", "U+1E932", "U+1E933", "U+1E934", "U+1E935", "U+1E936", "U+1E937",
              "U+1E938", "U+1E939", "U+1E93A", "U+1E93B", "U+1E93C", "U+1E93D", "U+1E93E",
              "U+1E93F", "U+1E940", "U+1E941", "U+1E942", "U+1E943" >>,
      cased |->
            {
              "A", "B", "C", "D", "E", "F", "G", "H", "I", "J", "K", "L", "M", "N", "O", "P",
              "Q", "R", "S", "T", "U", "V", "W", "X", "Y", "Z", "a", "b", "c", "d", "e", "f",
              "g", "h", "i", "j", "k", "l", "m", "n", "o", "p", "q", "r", "s", "t", "u", "v",
              "w", "x", "y", "z", "U+00AA", "U+00B5", "U+00BA", "U+00C0", "U+00C1", "U+00C2",
              "U+00C3", "U+00C4", "U+00C5", "U+00C6", "U+00C7", "U+00C8", "U+00C9", "U+00CA",
              "U+00CB", "U+00CC", "U+00CD", "U+00CE", "U+00CF", "U+00D0", "U+00D1", "U+00D2",
              "U+00D3", "U+00D4", "U+00D5", "U+00D6", "U+00D8", "U+00D9", "U+00DA", "U+00DB",
              "U+00DC", "U+00DD", "U+00DE", "U+00DF", "U+00E0", "U+00E1", "U+00E2", "U+00E3",
              "U+00E4", "U+00E5", "U+00E6", "U+00E7", "U+00E8", "U+00E9", "U+00EA", "U+00EB",
              "U+00EC", "U+00ED", "U+00EE", "U+00EF", "U+00F0", "U+00F1", "U+00F2", "U+00F3",
              "U+00F4", "U+00F5", "U+00F6", "U+00F8", "U+00F9", "U+00FA", "U+00FB", "U+00FC",
              "U+00FD", "U+00FE", "U+00FF", "U+0100", "U+0101", "U+0102", "U+0103", "U+0104",
              "U+0105", "U+0106", "U+0107", "U+0108", "U+0109", "U+010A", "U+010B", "U+010C",
              "U+010D", "U+010E", "U+010F", "U+0110", "U+0111", "U+0112", "U+0113", "U+0114",
              "U+0115", "U+0116", "U+0117", "U+0118", "U+0119", "U+011A", "U+011B", "U+011C",
              "U+011D", "U+011E", "U+011F", "U+0120", "U+0121", "U+0122", "U+0123", "U+0124",
              "U+0125", "U+0126", "U+0127", "U+0128", "U+0129", "U+012A", "U+012B", "U+012C",
              "U+012D", "U+012E", "U+012F", "U+0130", "U+0131", "U+0132", "U+0133", "U+0134",
              "U+0135", "U+0136", "U+0137", "U+0138", "U+0139", "U+013A", "U+013B", "U+013C",
              "U+013D", "U+013E", "U+013F", "U+0140", "U+0141", "U+0142", "U+0143", "U+0144",
              "U+0145", "U+0146", "U+0147", "U+0148", "U+0149", "U+014A", "U+014B", "U+014C",
              "U+014D", "U+014E", "U+014F", "U+0150", "U+0151", "U+0152", "U+0153", "U+0154",
              "U+0155", "U+0156", "U+0157", "U+0158", "U+0159", "U+015A", "U+015B", "U+015C",
              "U+015D", "U+015E", "U+015F", "U+0160", "U+0161", "U+0162", "U+0163", "U+0164",
              "U+0165", "U+0166", "U+0167", "U+0168", "U+0169", "U+016A", "U+016B", "U+016C",
              "U+016D", "U+016E", "U+016F", "U+0170", "U+0171", "U+0172", "U+0173", "U+0174",
              "U+0175", "U+0176", "U+0177", "U+0178", "U+0179", "U+017A", "U+017B", "U+017C",
              "U+017D", "U+017E", "U+017F", "U+0180", "U+0181", "U+0182", "U+0183", "U+0184",
              "U+0185", "U+0186", "U+0187", "U+0188", "U+0189", "U+018A", "U+018B", "U+018C",
              "U+018D", "U+018E", "U+018F", "U+0190", "U+0191", "U+0192", "U+0193", "U+0194",
              "U+0195", "U+0196", "U+0197", "U+0198", "U+0199", "U+019A", "U+019B", "U+019C",
              "U+019D", "U+019E", "U+019F", "U+01A0", "U+01A1", "U+01A2", "U+01A3", "U+01A4",
              "U+01A5", "U+01A6", "U+01A7", "U+01A8", "U+01A9", "U+01AA", "U+01AB", "U+01AC",
              "U+01AD", "U+01AE", "U+01AF", "U+01B0", "U+01B1", "U+01B2", "U+01B3", "U+01B4",
              "U+01B5", "U+01B6", "U+01B7", "U+01B8", "U+01B9", "U+01BA", "U+01BC", "U+01BD",
              "U+01BE", "U+01BF", "U+01C4", "U+01C5", "U+01C6", "U+01C7", "U+01C8", "U+01C9",
              "U+01CA", "U+01CB", "U+01CC", "U+01CD", "U+01CE", "U+01CF", "U+01D0", "U+01D1",
              "U+01D2", "U+01D3", "U+01D4", "U+01D5", "U+01D6", "U+01D7", "U+01D8", "U+01D9",
              "U+01DA", "U+01DB", "U+01DC", "U+01DD", "U+01DE", "U+01DF", "U+01E0", "U+01E1",
              "U+01E2", "U+01E3", "U+01E4", "U+01E5", "U+01E6", "U+01E7", "U+01E8", "U+01E9",
              "U+01EA", "U+01EB", "U+01EC", "U+01ED", "U+01EE", "U+01EF", "U+01F0", "U+01F1",
              "U+01F2", "U+01F3", "U+01F4", "U+01F5", "U+01F6", "U+01F7", "U+01F8", "U+01F9",
              "U+01FA", "U+01FB", "U+01FC", "U+01FD", "U+01FE", "U+01FF", "U+0200", "U+0201",
              "U+0202", "U+0203", "U+0204", "U+0205", "U+0206", "U+0207", "U+0208", "U+0209",
              "U+020A", "U+020B", "U+020C", "U+020D", "U+020E", "U+020F", "U+0210", "U+0211",
              "U+0212", "U+0213", "U+0214", "U+0215", "U+0216", "U+0217", "U+0218", "U+0219",
              "U+021A", "U+021B", "U+021C", "U+021D", "U+021E", "U+021F", "U+0220", "U+0221",
              "U+0222", "U+0223", "U+0224", "U+0225", "U+0226", "U+0227", "U+0228", "U+0229",
              "U+022A", "U+022B", "U+022C", "U+022D", "U+022E", "U+022F", "U+0230", "U+0231",
              "U+0232", "U+0233", "U+0234", "U+0235", "U+0236", "U+0237", "U+0238", "U+0239",
              "U+023A", "U+023B", "U+023C", "U+023D", "U+023E", "U+023F", "U+0240", "U+0241",
              "U+0242", "U+0243", "U+0244", "U+0245", "U+0246", "U+0247", "U+0248", "U+0249",
              "U+024A", "U+024B", "U+024C", "U+024D", "U+024E", "U+024F", "U+0250", "U+0251",
              "U+0252", "U+0253", "U+0254", "U+0255", "U+0256", "U+0257", "U+0258", "U+0259",
              "U+025A", "U+025B", "U+025C", "U+025D", "U+025E", "U+025F", "U+0260", "U+0261",
              "U+0262", "U+0263", "U+0264", "U+0265", "U+0266", "U+0267", "U+0268", "U+0269",
              "U+026A", "U+026B", "U+026C", "U+026D", "U+026E", "U+026F", "U+0270", "U+0271",
              "U+0272", "U+0273", "U+0274", "U+0275", "U+0276", "U+0277", "U+0278", "U+0279",
              "U+027A", "U+027B", "U+027C", "U+027D", "U+027E", "U+027F", "U+0280", "U+0281",
              "U+0282", "U+0283", "U+0284", "U+0285", "U+0286", "U+0287", "U+0288", "U+0289",
              "U+028A", "U+028B", "U+028C", "U+028D", "U+028E", "U+028F", "U+0290", "U+0291",
              "U+0292", "U+0293", "U+0296", "U+0297", "U+0298", "U+0299", "U+029A", "U+029B",
              "U+029C", "U+029D", "U+029E", "U+029F", "U+02A0", "U+02A1", "U+02A2", "U+02A3",
              "U+02A4", "U+02A5", "U+02A6", "U+02A7", "U+02A8", "U+02A9", "U+02AA", "U+02AB",
              "U+02AC", "U+02AD", "U+02AE", "U+02AF", "U+0370", "U+0371", "U+0372", "U+0373",
              "U+0376", "U+0377", "U+037B", "U+037C", "U+037D", "U+037F", "U+0386", "U+0388",
              "U+0389", "U+038A", "U+038C", "U+038E", "U+038F", "U+0390", "U+0391", "U+0392",
              "U+0393", "U+0394", "U+0395", "U+0396", "U+0397", "U+0398", "U+0399", "U+039A",
              "U+039B", "U+039C", "U+039D", "U+039E", "U+039F", "U+03A0", "U+03A1", "U+03A3",
              "U+03A4", "U+03A5", "U+03A6", "U+03A7", "U+03A8", "U+03A9", "U+03AA", "U+03AB",
              "U+03AC", "U+03AD", "U+03AE", "U+03AF", "U+03B0", "U+03B1", "U+03B2", "U+03B3",
              "U+03B4", "U+03B5", "U+03B6", "U+03B7", "U+03B8", "U+03B9", "U+03BA", "U+03BB",
              "U+03BC", "U+03BD", "U+03BE", "U+03BF", "U+03C0", "U+03C1", "U+03C2", "U+03C3",
              "U+03C4", "U+03C5", "U+03C6", "U+03C7", "U+03C8", "U+03C9", "U+03CA", "U+03CB",
              "U+03CC", "U+03CD", "U+03CE", "U+03CF", "U+03D0", "U+03D1", "U+03D2", "U+03D3",
              "U+03D4", "U+03D5", "U+03D6", "U+03D7", "U+03D8", "U+03D9", "U+03DA", "U+03DB",
              "U+03DC", "U+03DD", "U+03DE", "U+03DF", "U+03E0", "U+03E1", "U+03E2", "U+03E3",
              "U+03E4", "U+03E5", "U+03E6", "U+03E7", "U+03E8", "U+03E9", "U+03EA", "U+03EB",
              "U+03EC", "U+03ED", "U+03EE", "U+03EF", "U+03F0", "U+03F1", "U+03F2", "U+03F3",
              "U+03F4", "U+03F5", "U+03F7", "U+03F8", "U+03F9", "U+03FA", "U+03FB", "U+03FC",
              "U+03FD", "U+03FE", "U+03FF", "U+0400", "U+0401", "U+0402", "U+0403", "U+0404",
              "U+0405", "U+0406", "U+0407", "U+0408", "U+0409", "U+040A", "U+040B", "U+040C",
              "U+040D", "U+040E", "U+040F", "U+0410", "U+0411", "U+0412", "U+0413", "U+0414",
              "U+0415", "U+0416", "U+0417", "U+0418", "U+0419", "U+041A", "U+041B", "U+041C",
              "U+041D", "U+041E", "U+041F", "U+0420", "U+0421", "U+0422", "U+0423", "U+0424",
              "U+0425", "U+0426", "U+0427", "U+0428", "U+0429", "U+042A", "U+042B", "U+042C",
              "U+042D", "U+042E", "U+042F", "U+0430", "U+0431", "U+0432", "U+0433", "U+0434",
              "U+0435", "U+0436", "U+0437", "U+0438", "U+0439", "U+043A", "U+043B", "U+043C",
              "U+043D", "U+043E", "U+043F", "U+0440", "U+0441", "U+0442", "U+0443", "U+0444",
              "U+0445", "U+0446", "U+0447", "U+0448", "U+0449", "U+044A", "U+044B", "U+044C",
              "U+044D", "U+044E", "U+044F", "U+0450", "U+0451", "U+0452", "U+0453", "U+0454",
              "U+0455", "U+0456", "U+0457", "U+0458", "U+0459", "U+045A", "U+045B", "U+045C",
              "U+045D", "U+045E", "U+045F", "U+0460", "U+0461", "U+0462", "U+0463", "U+0464",
              "U+0465", "U+0466", "U+0467", "U+0468", "U+0469", "U+046A", "U+046B", "U+046C",
              "U+046D", "U+046E", "U+046F", "U+0470", "U+0471", "U+0472", "U+0473", "U+0474",
              "U+0475", "U+0476", "U+0477", "U+0478", "U+0479", "U+047A", "U+047B", "U+047C",
              "U+047D", "U+047E", "U+047F", "U+0480", "U+0481", "U+048A", "U+048B", "U+048C",
              "U+048D", "U+048E", "U+048F", "U+0490", "U+0491", "U+0492", "U+0493", "U+0494",
              "U+0495", "U+0496", "U+0497", "U+0498", "U+0499", "U+049A", "U+049B", "U+049C",
              "U+049D", "U+049E", "U+049F", "U+04A0", "U+04A1", "U+04A2", "U+04A3", "U+04A4",
              "U+04A5", "U+04A6", "U+04A7", "U+04A8", "U+04A9", "U+04AA", "U+04AB", "U+04AC",
              "U+04AD", "U+04AE", "U+04AF", "U+04B0", "U+04B1", "U+04B2", "U+04B3", "U+04B4",
              "U+04B5", "U+04B6", "U+04B7", "U+04B8", "U+04B9", "U+04BA", "U+04BB", "U+04BC",
              "U+04BD", "U+04BE", "U+04BF", "U+04C0", "U+04C1", "U+04C2", "U+04C3", "U+04C4",
              "U+04C5", "U+04C6", "U+04C7", "U+04C8", "U+04C9", "U+04CA", "U+04CB", "U+04CC",
              "U+04CD", "U+04CE", "U+04CF", "U+04D0", "U+04D1", "U+04D2", "U+04D3", "U+04D4",
              "U+04D5", "U+04D6", "U+04D7", "U+04D8", "U+04D9", "U+04DA", "U+04DB", "U+04DC",
              "U+04DD", "U+04DE", "U+04DF", "U+04E0", "U+04E1", "U+04E2", "U+04E3", "U+04E4",
              "U+04E5", "U+04E6", "U+04E7", "U+04E8", "U+04E9", "U+04EA", "U+04EB", "U+04EC",
              "U+04ED", "U+04EE", "U+04EF", "U+04F0", "U+04F1", "U+04F2", "U+04F3", "U+04F4",
              "U+04F5", "U+04F6", "U+04F7", "U+04F8", "U+04F9", "U+04FA", "U+04FB", "U+04FC",
              "U+04FD", "U+04FE", "U+04FF", "U+0500", "U+0501", "U+0502", "U+0503", "U+0504",
              "U+0505", "U+0506", "U+0507", "U+0508", "U+0509", "U+050A", "U+050B", "U+050C",
              "U+050D", "U+050E", "U+050F", "U+0510", "U+0511", "U+0512", "U+0513", "U+0514",
              "U+0515", "U+0516", "U+0517", "U+0518", "U+0519", "U+051A", "U+051B", "U+051C",
              "U+051D", "U+051E", "U+051F", "U+0520", "U+0521", "U+0522", "U+0523", "U+0524",
              "U+0525", "U+0526", "U+0527", "U+0528", "U+0529", "U+052A", "U+052B", "U+052C",
              "U+052D", "U+052E", "U+052F", "U+0531", "U+0532", "U+0533", "U+0534", "U+0535",
              "U+0536", "U+0537", "U+0538", "U+0539", "U+053A", "U+053B", "U+053C", "U+053D",
              "U+053E", "U+053F", "U+0540", "U+0541", "U+0542", "U+0543", "U+0544", "U+0545",
              "U+0546", "U+0547", "U+0548", "U+0549", "U+054A", "U+054B", "U+054C", "U+054D",
              "U+054E", "U+054F", "U+0550", "U+0551", "U+0552", "U+0553", "U+0554", "U+0555",
              "U+0556", "U+0560", "U+0561", "U+0562", "U+0563", "U+0564", "U+0565", "U+0566",
              "U+0567", "U+0568", "U+0569", "U+056A", "U+056B", "U+056C", "U+056D", "U+056E",
              "U+056F", "U+0570", "U+0571", "U+0572", "U+0573", "U+0574", "U+0575", "U+0576",
              "U+0577", "U+0578", "U+0579", "U+057A", "U+057B", "U+057C", "U+057D", "U+057E",
              "U+057F", "U+0580", "U+0581", "U+0582", "U+0583", "U+0584", "U+0585", "U+0586",
              "U+0587", "U+0588", "U+10A0", "U+10A1", "U+10A2", "U+10A3", "U+10A4", "U+10A5",
              "U+10A6", "U+10A7", "U+10A8", "U+10A9", "U+10AA", "U+10AB", "U+10AC", "U+10AD",
              "U+10AE", "U+10AF", "U+10B0", "U+10B1", "U+10B2", "U+10B3", "U+10B4", "U+10B5",
              "U+10B6", "U+10B7", "U+10B8", "U+10B9", "U+10BA", "U+10BB", "U+10BC", "U+10BD",
              "U+10BE", "U+10BF", "U+10C0", "U+10C1", "U+10C2", "U+10C3", "U+10C4", "U+10C5",
              "U+10C7", "U+10CD", "U+10D0", "U+10D1", "U+10D2", "U+10D3", "U+10D4", "U+10D5",
              "U+10D6", "U+10D7", "U+10D8", "U+10D9", "U+10DA", "U+10DB", "U+10DC", "U+10DD",
              "U+10DE", "U+10DF", "U+10E0", "U+10E1", "U+10E2", "U+10E3", "U+10E4", "U+10E5",
              "U+10E6", "U+10E7", "U+10E8", "U+10E9", "U+10EA", "U+10EB", "U+10EC", "U+10ED",
              "U+10EE", "U+10EF", "U+10F0", "U+10F1", "U+10F2", "U+10F3", "U+10F4", "U+10F5",
              "U+10F6", "U+10F7", "U+10F8", "U+10F9", "U+10FA", "U+10FD", "U+10FE", "U+10FF",
              "U+13A0", "U+13A1", "U+13A2", "U+13A3", "U+13A4", "U+13A5", "U+13A6", "U+13A7",
              "U+13A8", "U+13A9", "U+13AA", "U+13AB", "U+13AC", "U+13AD", "U+13AE", "U+13AF",
              "U+13B0", "U+13B1", "U+13B2", "U+13B3", "U+13B4", "U+13B5", "U+13B6", "U+13B7",
              "U+13B8", "U+13B9", "U+13BA", "U+13BB", "U+13BC", "U+13BD", "U+13BE", "U+13BF",
              "U+13C0", "U+13C1", "U+13C2", "U+13C3", "U+13C4", "U+13C5", "U+13C6", "U+13C7",
              "U+13C8", "U+13C9", "U+13CA", "U+13CB", "U+13CC", "U+13CD", "U+13CE", "U+13CF",
              "U+13D0", "U+13D1", "U+13D2", "U+13D3", "U+13D4", "U+13D5", "U+13D6", "U+13D7",
              "U+13D8", "U+13D9", "U+13DA", "U+13DB", "U+13DC", "U+13DD", "U+13DE", "U+13DF",
              "U+13E0", "U+13E1", "U+13E2", "U+13E3", "U+13E4", "U+13E5", "U+13E6", "U+13E7",
              "U+13E8", "U+13E9", "U+13EA", "U+13EB", "U+13EC", "U+13ED", "U+13EE", "U+13EF",
              "U+13F0", "U+13F1", "U+13F2", "U+13F3", "U+13F4", "U+13F5", "U+13F8", "U+13F9",
              "U+13FA", "U+13FB", "U+13FC", "U+13FD", "U+1C80", "U+1C81", "U+1C82", "U+1C83",
              "U+1C84", "U+1C85", "U+1C86", "U+1C87", "U+1C88", "U+1C89", "U+1C8A", "U+1C90",
              "U+1C91", "U+1C92", "U+1C93", "U+1C94", "U+1C95", "U+1C96", "U+1C97", "U+1C98",
              "U+1C99", "U+1C9A", "U+1C9B", "U+1C9C", "U+1C9D", "U+1C9E", "U+1C9F", "U+1CA0",
              "U+1CA1", "U+1CA2", "U+1CA3", "U+1CA4", "U+1CA5", "U+1CA6", "U+1CA7", "U+1CA8",
              "U+1CA9", "U+1CAA", "U+1CAB", "U+1CAC", "U+1CAD", "U+1CAE", "U+1CAF", "U+1CB0",
              "U+1CB1", "U+1CB2", "U+1CB3", "U+1CB4", "U+1CB5", "U+1CB6", "U+1CB7", "U+1CB8",
              "U+1CB9", "U+1CBA", "U+1CBD", "U+1CBE", "U+1CBF", "U+1D00", "U+1D01", "U+1D02",
              "U+1D03", "U+1D04", "U+1D05", "U+1D06", "U+1D07", "U+1D08", "U+1D09", "U+1D0A",
              "U+1D0B", "U+1D0C", "U+1D0D", "U+1D0E", "U+1D0F", "U+1D10", "U+1D11", "U+1D12",
              "U+1D13", "U+1D14", "U+1D15", "U+1D16", "U+1D17", "U+1D18", "U+1D19", "U+1D1A",
              "U+1D1B", "U+1D1C", "U+1D1D", "U+1D1E", "U+1D1F", "U+1D20", "U+1D21", "U+1D22",
              "U+1D23", "U+1D24", "U+1D25", "U+1D26", "U+1D27", "U+1D28", "U+1D29", "U+1D2A",
              "U+1D2B", "U+1D6B", "U+1D6C", "U+1D6D", "U+1D6E", "U+1D6F", "U+1D70", "U+1D71",
              "U+1D72", "U+1D73", "U+1D74", "U+1D75", "U+1D76", "U+1D77", "U+1D79", "U+1D7A",
              "U+1D7B", "U+1D7C", "U+1D7D", "U+1D7E", "U+1D7F", "U+1D80", "U+1D81", "U+1D82",
              "U+1D83", "U+1D84", "U+1D85", "U+1D86", "U+1D87", "U+1D88", "U+1D89", "U+1D8A",
              "U+1D8B", "U+1D8C", "U+1D8D", "U+1D8E", "U+1D8F", "U+1D90", "U+1D91", "U+1D92",
              "U+1D93", "U+1D94", "U+1D95", "U+1D96", "U+1D97", "U+1D98", "U+1D99", "U+1D9A",
              "U+1E00", "U+1E01", "U+1E02", "U+1E03", "U+1E04", "U+1E05", "U+1E06", "U+1E07",
              "U+1E08", "U+1E09", "U+1E0A", "U+1E0B", "U+1E0C", "U+1E0D", "U+1E0E", "U+1E0F",
              "U+1E10", "U+1E11", "U+1E12", "U+1E13", "U+1E14", "U+1E15", "U+1E16", "U+1E17",
              "U+1E18", "U+1E19", "U+1E1A", "U+1E1B", "U+1E1C", "U+1E1D", "U+1E1E", "U+1E1F",
              "U+1E20", "U+1E21", "U+1E22", "U+1E23", "U+1E24", "U+1E25", "U+1E26", "U+1E27",
              "U+1E28", "U+1E29", "U+1E2A", "U+1E2B", "U+1E2C", "U+1E2D", "U+1E2E", "U+1E2F",
              "U+1E30", "U+1E31", "U+1E32", "U+1E33", "U+1E34", "U+1E35", "U+1E36", "U+1E37",
              "U+1E38", "U+1E39", "U+1E3A", "U+1E3B", "U+1E3C", "U+1E3D", "U+1E3E", "U+1E3F",
              "U+1E40", "U+1E41", "U+1E42", "U+1E43", "U+1E44", "U+1E45", "U+1E46", "U+1E47",
              "U+1E48", "U+1E49", "U+1E4A", "U+1E4B", "U+1E4C", "U+1E4D", "U+1E4E", "U+1E4F",
              "U+1E50", "U+1E51", "U+1E52", "U+1E53", "U+1E54", "U+1E55", "U+1E56", "U+1E57",
              "U+1E58", "U+1E59", "U+1E5A", "U+1E5B", "U+1E5C", "U+1E5D", "U+1E5E", "U+1E5F",
              "U+1E60", "U+1E61", "U+1E62", "U+1E63", "U+1E64", "U+1E65", "U+1E66", "U+1E67",
              "U+1E68", "U+1E69", "U+1E6A", "U+1E6B", "U+1E6C", "U+1E6D", "U+1E6E", "U+1E6F",
              "U+1E70", "U+1E71", "U+1E72", "U+1E73", "U+1E74", "U+1E75", "U+1E76", "U+1E77",
              "U+1E78", "U+1E79", "U+1E7A", "U+1E7B", "U+1E7C", "U+1E7D", "U+1E7E", "U+1E7F",
              "U+1E80", "U+1E81", "U+1E82", "U+1E83", "U+1E84", "U+1E85", "U+1E86", "U+1E87",
              "U+1E88", "U+1E89", "U+1E8A", "U+1E8B", "U+1E8C", "U+1E8D", "U+1E8E", "U+1E8F",
              "U+1E90", "U+1E91", "U+1E92", "U+1E93", "U+1E94", "U+1E95", "U+1E96", "U+1E97",
              "U+1E98", "U+1E99", "U+1E9A", "U+1E9B", "U+1E9C", "U+1E9D", "U+1E9E", "U+1E9F",
              "U+1EA0", "U+1EA1", "U+1EA2", "U+1EA3", "U+1EA4", "U+1EA5", "U+1EA6", "U+1EA7",
              "U+1EA8", "U+1EA9", "U+1EAA", "U+1EAB", "U+1EAC", "U+1EAD", "U+1EAE", "U+1EAF",
              "U+1EB0", "U+1EB1", "U+1EB2", "U+1EB3", "U+1EB4", "U+1EB5", "U+1EB6", "U+1EB7",
              "U+1EB8", "U+1EB9", "U+1EBA", "U+1EBB", "U+1EBC", "U+1EBD", "U+1EBE", "U+1EBF",
              "U+1EC0", "U+1EC1", "U+1EC2", "U+1EC3", "U+1EC4", "U+1EC5", "U+1EC6", "U+1EC7",
              "U+1EC8", "U+1EC9", "U+1ECA", "U+1ECB", "U+1ECC", "U+1ECD", "U+1ECE", "U+1ECF",
              "U+1ED0", "U+1ED1", "U+1ED2", "U+1ED3", "U+1ED4", "U+1ED5", "U+1ED6", "U+1ED7",
              "U+1ED8", "U+1ED9", "U+1EDA", "U+1EDB", "U+1EDC", "U+1EDD", "U+1EDE", "U+1EDF",
              "U+1EE0", "U+1EE1", "U+1EE2", "U+1EE3", "U+1EE4", "U+1EE5", "U+1EE6", "U+1EE7",
              "U+1EE8", "U+1EE9", "U+1EEA", "U+1EEB", "U+1EEC", "U+1EED", "U+1EEE", "U+1EEF",
              "U+1EF0", "U+1EF1", "U+1EF2", "U+1EF3", "U+1EF4", "U+1EF5", "U+1EF6", "U+1EF7",
              "U+1EF8", "U+1EF9", "U+1EFA", "U+1EFB", "U+1EFC", "U+1EFD", "U+1EFE", "U+1EFF",
              "U+1F00", "U+1F01", "U+1F02", "U+1F03", "U+1F04", "U+1F05", "U+1F06", "U+1F07",
              "U+1F08", "U+1F09", "U+1F0A", "U+1F0B", "U+1F0C", "U+1F0D", "U+1F0E", "U+1F0F",
              "U+1F10", "U+1F11", "U+1F12", "U+1F13", "U+1F14", "U+1F15", "U+1F18", "U+1F19",
              "U+1F1A", "U+1F1B", "U+1F1C", "U+1F1D", "U+1F20", "U+1F21", "U+1F22", "U+1F23",
              "U+1F24", "U+1F25", "U+1F26", "U+1F27", "U+1F28", "U+1F29", "U+1F2A", "U+1F2B",
              "U+1F2C", "U+1F2D", "U+1F2E", "U+1F2F", "U+1F30", "U+1F31", "U+1F32", "U+1F33",
              "U+1F34", "U+1F35", "U+1F36", "U+1F37", "U+1F38", "U+1F39", "U+1F3A", "U+1F3B",
              "U+1F3C", "U+1F3D", "U+1F3E", "U+1F3F", "U+1F40", "U+1F41", "U+1F42", "U+1F43",
              "U+1F44", "U+1F45", "U+1F48", "U+1F49", "U+1F4A", "U+1F4B", "U+1F4C", "U+1F4D",
              "U+1F50", "U+1F51", "U+1F52", "U+1F53", "U+1F54", "U+1F55", "U+1F56", "U+1F57",
              "U+1F59", "U+1F5B", "U+1F5D", "U+1F5F", "U+1F60", "U+1F61", "U+1F62", "U+1F63",
              "U+1F64", "U+1F65", "U+1F66", "U+1F67", "U+1F68", "U+1F69", "U+1F6A", "U+1F6B",
              "U+1F6C", "U+1F6D", "U+1F6E", "U+1F6F", "U+1F70", "U+1F71", "U+1F72", "U+1F73",
              "U+1F74", "U+1F75", "U+1F76", "U+1F77", "U+1F78", "U+1F79", "U+1F7A", "U+1F7B",
              "U+1F7C", "U+1F7D", "U+1F80", "U+1F81", "U+1F82", "U+1F83", "U+1F84", "U+1F85",
              "U+1F86", "U+1F87", "U+1F88", "U+1F89", "U+1F8A", "U+1F8B", "U+1F8C", "U+1F8D",
              "U+1F8E", "U+1F8F", "U+1F90", "U+1F91", "U+1F92", "U+1F93", "U+1F94", "U+1F95",
              "U+1F96", "U+1F97", "U+1F98", "U+1F99", "U+1F9A", "U+1F9B", "U+1F9C", "U+1F9D",
              "U+1F9E", "U+1F9F", "U+1FA0", "U+1FA1", "U+1FA2", "U+1FA3", "U+1FA4", "U+1FA5",
              "U+1FA6", "U+1FA7", "U+1FA8", "U+1FA9", "U+1FAA", "U+1FAB", "U+1FAC", "U+1FAD",
              "U+1FAE", "U+1FAF", "U+1FB0", "U+1FB1", "U+1FB2", "U+1FB3", "U+1FB4", "U+1FB6",
              "U+1FB7", "U+1FB8", "U+1FB9", "U+1FBA", "U+1FBB", "U+1FBC", "U+1FBE", "U+1FC2",
              "U+1FC3", "U+1FC4", "U+1FC6", "U+1FC7", "U+1FC8", "U+1FC9", "U+1FCA", "U+1FCB",
              "U+1FCC", "U+1FD0", "U+1FD1", "U+1FD2", "U+1FD3", "U+1FD6", "U+1FD7", "U+1FD8",
              "U+1FD9", "U+1FDA", "U+1FDB", "U+1FE0", "U+1FE1", "U+1FE2", "U+1FE3", "U+1FE4",
              "U+1FE5", "U+1FE6", "U+1FE7", "U+1FE8", "U+1FE9", "U+1FEA", "U+1FEB", "U+1FEC",
              "U+1FF2", "U+1FF3", "U+1FF4", "U+1FF6", "U+1FF7", "U+1FF8", "U+1FF9", "U+1FFA",
              "U+1FFB", "U+1FFC", "U+2102", "U+2107", "U+210A", "U+210B", "U+210C", "U+210D",
              "U+210E", "U+210F", "U+2110", "U+2111", "U+2112", "U+2113", "U+2115", "U+2119",
              "U+211A", "U+211B", "U+211C", "U+211D", "U+2124", "U+2126", "U+2128", "U+212A",
              "U+212B", "U+212C", "U+212D", "U+212F", "U+2130", "U+2131", "U+2132", "U+2133",
              "U+2134", "U+2139", "U+213C", "U+213D", "U+213E", "U+213F", "U+2145", "U+2146",
              "U+2147", "U+2148", "U+2149", "U+214E", "U+2160", "U+2161", "U+2162", "U+2163",
              "U+2164", "U+2165", "U+2166", "U+2167", "U+2168", "U+2169", "U+216A", "U+216B",
              "U+216C", "U+216D", "U+216E", "U+216F", "U+2170", "U+2171", "U+2172", "U+2173",
              "U+2174", "U+2175", "U+2176", "U+2177", "U+2178", "U+2179", "U+217A", "U+217B",
              "U+217C", "U+217D", "U+217E", "U+217F", "U+2183", "U+2184", "U+24B6", "U+24B7",
              "U+24B8", "U+24B9", "U+24BA", "U+24BB", "U+24BC", "U+24BD", "U+24BE", "U+24BF",
              "U+24C0", "U+24C1", "U+24C2", "U+24C3", "U+24C4", "U+24C5", "U+24C6", "U+24C7",
              "U+24C8", "U+24C9", "U+24CA", "U+24CB", "U+24CC", "U+24CD", "U+24CE", "U+24CF",
              "U+24D0", "U+24D1", "U+24D2", "U+24D3", "U+24D4", "U+24D5", "U+24D6", "U+24D7",
              "U+24D8", "U+24D9", "U+24DA", "U+24DB", "U+24DC", "U+24DD", "U+24DE", "U+24DF",
              "U+24E0", "U+24E1", "U+24E2", "U+24E3", "U+24E4", "U+24E5", "U+24E6", "U+24E7",
              "U+24E8", "U+24E9", "U+2C00", "U+2C01", "U+2C02", "U+2C03", "U+2C04", "U+2C05",
              "U+2C06", "U+2C07", "U+2C08", "U+2C09", "U+2C0A", "U+2C0B", "U+2C0C", "U+2C0D",
              "U+2C0E", "U+2C0F", "U+2C10", "U+2C11", "U+2C12", "U+2C13", "U+2C14", "U+2C15",
              "U+2C16", "U+2C17", "U+2C18", "U+2C19", "U+2C1A", "U+2C1B", "U+2C1C", "U+2C1D",
              "U+2C1E", "U+2C1F", "U+2C20", "U+2C21", "U+2C22", "U+2C23", "U+2C24", "U+2C25",
              "U+2C26", "U+2C27", "U+2C28", "U+2C29", "U+2C2A", "U+2C2B", "U+2C2C", "U+2C2D",
              "U+2C2E", "U+2C2F", "U+2C30", "U+2C31", "U+2C32", "U+2C33", "U+2C34", "U+2C35",
              "U+2C36", "U+2C37", "U+2C38", "U+2C39", "U+2C3A", "U+2C3B", "U+2C3C", "U+2C3D",
              "U+2C3E", "U+2C3F", "U+2C40", "U+2C41", "U+2C42", "U+2C43", "U+2C44", "U+2C45",
              "U+2C46", "U+2C47", "U+2C48", "U+2C49", "U+2C4A", "U+2C4B", "U+2C4C", "U+2C4D",
              "U+2C4E", "U+2C4F", "U+2C50", "U+2C51", "U+2C52", "U+2C53", "U+2C54", "U+2C55",
              "U+2C56", "U+2C57", "U+2C58", "U+2C59", "U+2C5A", "U+2C5B", "U+2C5C", "U+2C5D",
              "U+2C5E", "U+2C5F", "U+2C60", "U+2C61", "U+2C62", "U+2C63", "U+2C64", "U+2C65",
              "U+2C66", "U+2C67", "U+2C68", "U+2C69", "U+2C6A", "U+2C6B", "U+2C6C", "U+2C6D",
              "U+2C6E", "U+2C6F", "U+2C70", "U+2C71", "U+2C72", "U+2C73", "U+2C74", "U+2C75",
              "U+2C76", "U+2C77", "U+2C78", "U+2C79", "U+2C7A", "U+2C7B", "U+2C7E", "U+2C7F",
              "U+2C80", "U+2C81", "U+2C82", "U+2C83", "U+2C84", "U+2C85", "U+2C86", "U+2C87",
              "U+2C88", "U+2C89", "U+2C8A", "U+2C8B", "U+2C8C", "U+2C8D", "U+2C8E", "U+2C8F",
              "U+2C90", "U+2C91", "U+2C92", "U+2C93", "U+2C94", "U+2C95", "U+2C96", "U+2C97",
              "U+2C98", "U+2C99", "U+2C9A", "U+2C9B", "U+2C9C", "U+2C9D", "U+2C9E", "U+2C9F",
              "U+2CA0", "U+2CA1", "U+2CA2", "U+2CA3", "U+2CA4", "U+2CA5", "U+2CA6", "U+2CA7",
              "U+2CA8", "U+2CA9", "U+2CAA", "U+2CAB", "U+2CAC", "U+2CAD", "U+2CAE", "U+2CAF",
              "U+2CB0", "U+2CB1", "U+2CB2", "U+2CB3", "U+2CB4", "U+2CB5", "U+2CB6", "U+2CB7",
              "U+2CB8", "U+2CB9", "U+2CBA", "U+2CBB", "U+2CBC", "U+2CBD", "U+2CBE", "U+2CBF",
              "U+2CC0", "U+2CC1", "U+2CC2", "U+2CC3", "U+2CC4", "U+2CC5", "U+2CC6", "U+2CC7",
              "U+2CC8", "U+2CC9", "U+2CCA", "U+2CCB", "U+2CCC", "U+2CCD", "U+2CCE", "U+2CCF",
              "U+2CD0", "U+2CD1", "U+2CD2", "U+2CD3", "U+2CD4", "U+2CD5", "U+2CD6", "U+2CD7",
              "U+2CD8", "U+2CD9", "U+2CDA", "U+2CDB", "U+2CDC", "U+2CDD", "U+2CDE", "U+2CDF",
              "U+2CE0", "U+2CE1", "U+2CE2", "U+2CE3", "U+2CE4", "U+2CEB", "U+2CEC", "U+2CED",
              "U+2CEE", "U+2CF2", "U+2CF3", "U+2D00", "U+2D01", "U+2D02", "U+2D03", "U+2D04",
              "U+2D05", "U+2D06", "U+2D07", "U+2D08", "U+2D09", "U+2D0A", "U+2D0B", "U+2D0C",
              "U+2D0D", "U+2D0E", "U+2D0F", "U+2D10", "U+2D11", "U+2D12", "U+2D13", "U+2D14",
              "U+2D15", "U+2D16", "U+2D17", "U+2D18", "U+2D19", "U+2D1A", "U+2D1B", "U+2D1C",
              "U+2D1D", "U+2D1E", "U+2D1F", "U+2D20", "U+2D21", "U+2D22", "U+2D23", "U+2D24",
              "U+2D25", "U+2D27", "U+2D2D", "U+A640", "U+A641", "U+A642", "U+A643", "U+A644",
              "U+A645", "U+A646", "U+A647", "U+A648", "U+A649", "U+A64A", "U+A64B", "U+A64C",
              "U+A64D", "U+A64E", "U+A64F", "U+A650", "U+A651", "U+A652", "U+A653", "U+A654",
              "U+A655", "U+A656", "U+A657", "U+A658", "U+A659", "U+A65A", "U+A65B", "U+A65C",
              "U+A65D", "U+A65E", "U+A65F", "U+A660", "U+A661", "U+A662", "U+A663", "U+A664",
              "U+A665", "U+A666", "U+A667", "U+A668", "U+A669", "U+A66A", "U+A66B", "U+A66C",
              "U+A66D", "U+A680", "U+A681", "U+A682", "U+A683", "U+A684", "U+A685", "U+A686",
              "U+A687", "U+A688", "U+A689", "U+A68A", "U+A68B", "U+A68C", "U+A68D", "U+A68E",
              "U+A68F", "U+A690", "U+A691", "U+A692", "U+A693", "U+A694", "U+A695", "U+A696",
              "U+A697", "U+A698", "U+A699", "U+A69A", "U+A69B", "U+A722", "U+A723", "U+A724",
              "U+A725", "U+A726", "U+A727", "U+A728", "U+A729", "U+A72A", "U+A72B", "U+A72C",
              "U+A72D", "U+A72E", "U+A72F", "U+A730", "U+A731", "U+A732", "U+A733", "U+A734",
              "U+A735", "U+A736", "U+A737", "U+A738", "U+A739", "U+A73A", "U+A73B", "U+A73C",
              "U+A73D", "U+A73E", "U+A73F", "U+A740", "U+A741", "U+A742", "U+A743", "U+A744",
              "U+A745", "U+A746", "U+A747", "U+A748", "U+A749", "U+A74A", "U+A74B", "U+A74C",
              "U+A74D", "U+A74E", "U+A74F", "U+A750", "U+A751", "U+A752", "U+A753", "U+A754",
              "U+A755", "U+A756", "U+A757", "U+A758", "U+A759", "U+A75A", "U+A75B", "U+A75C",
              "U+A75D", "U+A75E", "U+A75F", "U+A760", "U+A761", "U+A762", "U+A763", "U+A764",
              "U+A765", "U+A766", "U+A767", "U+A768", "U+A769", "U+A76A", "U+A76B", "U+A76C",
              "U+A76D", "U+A76E", "U+A76F", "U+A771", "U+A772", "U+A773", "U+A774", "U+A775",
              "U+A776", "U+A777", "U+A778", "U+A779", "U+A77A", "U+A77B", "U+A77C", "U+A77D",
              "U+A77E", "U+A77F", "U+A780", "U+A781", "U+A782", "U+A783", "U+A784", "U+A785",
              "U+A786", "U+A787", "U+A78B", "U+A78C", "U+A78D", "U+A78E", "U+A790", "U+A791",
              "U+A792", "U+A793", "U+A794", "U+A795", "U+A796", "U+A797", "U+A798", "U+A799",
              "U+A79A", "U+A79B", "U+A79C", "U+A79D", "U+A79E", "U+A79F", "U+A7A0", "U+A7A1",
              "U+A7A2", "U+A7A3", "U+A7A4", "U+A7A5", "U+A7A6", "U+A7A7", "U+A7A8", "U+A7A9",
              "U+A7AA", "U+A7AB", "U+A7AC", "U+A7AD", "U+A7AE", "U+A7AF", "U+A7B0", "U+A7B1",
              "U+A7B2", "U+A7B3", "U+A7B4", "U+A7B5", "U+A7B6", "U+A7B7", "U+A7B8", "U+A7B9",
              "U+A7BA", "U+A7BB", "U+A7BC", "U+A7BD", "U+A7BE", "U+A7BF", "U+A7C0", "U+A7C1",
              "U+A7C2", "U+A7C3", "U+A7C4", "U+A7C5", "U+A7C6", "U+A7C7", "U+A7C8", "U+A7C9",
              "U+A7CA", "U+A7CB", "U+A7CC", "U+A7CD", "U+A7CE", "U+A7CF", "U+A7D0", "U+A7D1",
              "U+A7D2", "U+A7D3", "U+A7D4", "U+A7D5", "U+A7D6", "U+A7D7", "U+A7D8", "U+A7D9",
              "U+A7DA", "U+A7DB", "U+A7DC", "U+A7F5", "U+A7F6", "U+A7FA", "U+AB30", "U+AB31",
              "U+AB32", "U+AB33", "U+AB34", "U+AB35", "U+AB36", "U+AB37", "U+AB38", "U+AB39",
              "U+AB3A", "U+AB3B", "U+AB3C", "U+AB3D", "U+AB3E", "U+AB3F", "U+AB40", "U+AB41",
              "U+AB42", "U+AB43", "U+AB44", "U+AB45", "U+AB46", "U+AB47", "U+AB48", "U+AB49",
              "U+AB4A", "U+AB4B", "U+AB4C", "U+AB4D", "U+AB4E", "U+AB4F", "U+AB50", "U+AB51",
              "U+AB52", "U+AB53", "U+AB54", "U+AB55", "U+AB56", "U+AB57", "U+AB58", "U+AB59",
              "U+AB5A", "U+AB60", "U+AB61", "U+AB62", "U+AB63", "U+AB64", "U+AB65", "U+AB66",
              "U+AB67", "U+AB68", "U+AB70", "U+AB71", "U+AB72", "U+AB73", "U+AB74", "U+AB75",
              "U+AB76", "U+AB77", "U+AB78", "U+AB79", "U+AB7A", "U+AB7B", "U+AB7C", "U+AB7D",
              "U+AB7E", "U+AB7F", "U+AB80", "U+AB81", "U+AB82", "U+AB83", "U+AB84", "U+AB85",
              "U+AB86", "U+AB87", "U+AB88", "U+AB89", "U+AB8A", "U+AB8B", "U+AB8C", "U+AB8D",
              "U+AB8E", "U+AB8F", "U+AB90", "U+AB91", "U+AB92", "U+AB93", "U+AB94", "U+AB95",
              "U+AB96", "U+AB97", "U+AB98", "U+AB99", "U+AB9A", "U+AB9B", "U+AB9C", "U+AB9D",
              "U+AB9E", "U+AB9F", "U+ABA0", "U+ABA1", "U+ABA2", "U+ABA3", "U+ABA4", "U+ABA5",
              "U+ABA6", "U+ABA7", "U+ABA8", "U+ABA9", "U+ABAA", "U+ABAB", "U+ABAC", "U+ABAD",
              "U+ABAE", "U+ABAF", "U+ABB0", "U+ABB1", "U+ABB2", "U+ABB3", "U+ABB4", "U+ABB5",
              "U+ABB6", "U+ABB7", "U+ABB8", "U+ABB9", "U+ABBA", "U+ABBB", "U+ABBC", "U+ABBD",
              "U+ABBE", "U+ABBF", "U+FB00", "U+FB01", "U+FB02", "U+FB03", "U+FB04", "U+FB05",
              "U+FB06", "U+FB13", "U+FB14", "U+FB15", "U+FB16", "U+FB17", "U+FF21", "U+FF22",
              "U+FF23", "U+FF24", "U+FF25", "U+FF26", "U+FF27", "U+FF28", "U+FF29", "U+FF2A",
              "U+FF2B", "U+FF2C", "U+FF2D", "U+FF2E", "U+FF2F", "U+FF30", "U+FF31", "U+FF32",
              "U+FF33", "U+FF34", "U+FF35", "U+FF36", "U+FF37", "U+FF38", "U+FF39", "U+FF3A",
              "U+FF41", "U+FF42", "U+FF43", "U+FF44", "U+FF45", "U+FF46", "U+FF47", "U+FF48",
              "U+FF49", "U+FF4A", "U+FF4B", "U+FF4C", "U+FF4D", "U+FF4E", "U+FF4F", "U+FF50",
              "U+FF51", "U+FF52", "U+FF53", "U+FF54", "U+FF55", "U+FF56", "U+FF57", "U+FF58",
              "U+FF59", "U+FF5A", "U+10400", "U+10401", "U+10402", "U+10403", "U+10404",
              "U+10405", "U+10406", "U+10407", "U+10408", "U+10409", "U+1040A", "U+1040B",
              "U+1040C", "U+1040D", "U+1040E", "U+1040F", "U+10410", "U+10411", "U+10412",
              "U+10413", "U+10414", "U+10415", "U+10416", "U+10417", "U+10418", "U+10419",
              "U+1041A", "U+1041B", "U+1041C", "U+1041D", "U+1041E", "U+1041F", "U+10420",
              "U+10421", "U+10422", "U+10423", "U+10424", "U+10425", "U+10426", "U+10427",
              "U+10428", "U+10429", "U+1042A", "U+1042B", "U+1042C", "U+1042D", "U+1042E",
              "U+1042F", "U+10430", "U+10431", "U+10432", "U+10433", "U+10434", "U+10435",
              "U+10436", "U+10437", "U+10438", "U+10439", "U+1043A", "U+1043B", "U+1043C",
              "U+1043D", "U+1043E", "U+1043F", "U+10440", "U+10441", "U+10442", "U+10443",
              "U+10444", "U+10445", "U+10446", "U+10447", "U+10448", "U+10449", "U+1044A",
              "U+1044B", "U+1044C", "U+1044D", "U+1044E", "U+1044F", "U+104B0", "U+104B1",
              "U+104B2", "U+104B3", "U+104B4", "U+104B5", "U+104B6", "U+104B7", "U+104B8",
              "U+104B9", "U+104BA", "U+104BB", "U+104BC", "U+104BD", "U+104BE", "U+104BF",
              "U+104C0", "U+104C1", "U+104C2", "U+104C3", "U+104C4", "U+104C5", "U+104C6",
              "U+104C7", "U+104C8", "U+104C9", "U+104CA", "U+104CB", "U+104CC", "U+104CD",
              "U+104CE", "U+104CF", "U+104D0", "U+104D1", "U+104D2", "U+104D3", "U+104D8",
              "U+104D9", "U+104DA", "U+104DB", "U+104DC", "U+104DD", "U+104DE", "U+104DF",
              "U+104E0", "U+104E1", "U+104E2", "U+104E3", "U+104E4", "U+104E5", "U+104E6",
              "U+104E7", "U+104E8", "U+104E9", "U+104EA", "U+104EB", "U+104EC", "U+104ED",
              "U+104EE", "U+104EF", "U+104F0", "U+104F1", "U+104F2", "U+104F3", "U+104F4",
              "U+104F5", "U+104F6", "U+104F7", "U+104F8", "U+104F9", "U+104FA", "U+104FB",
              "U+10570", "U+10571", "U+10572", "U+10573", "U+10574", "U+10575", "U+10576",
              "U+10577", "U+10578", "U+10579", "U+1057A", "U+1057C", "U+1057D", "U+1057E",
              "U+1057F", "U+10580", "U+10581", "U+10582", "U+10583", "U+10584", "U+10585",
              "U+10586", "U+10587", "U+10588", "U+10589", "U+1058A", "U+1058C", "U+1058D",
              "U+1058E", "U+1058F", "U+10590", "U+10591", "U+10592", "U+10594", "U+10595",
              "U+10597", "U+10598", "U+10599", "U+1059A", "U+1059B", "U+1059C", "U+1059D",
              "U+1059E", "U+1059F", "U+105A0", "U+105A1", "U+105A3", "U+105A4", "U+105A5",
              "U+105A6", "U+105A7", "U+105A8", "U+105A9", "U+105AA", "U+105AB", "U+105AC",
              "U+105AD", "U+105AE", "U+105AF", "U+105B0", "U+105B1", "U+105B3", "U+105B4",
              "U+105B5", "U+105B6", "U+105B7", "U+105B8", "U+105B9", "U+105BB", "U+105BC",
              "U+10C80", "U+10C81", "U+10C82", "U+10C83", "U+10C84", "U+10C85", "U+10C86",
              "U+10C87", "U+10C88", "U+10C89", "U+10C8A", "U+10C8B", "U+10C8C", "U+10C8D",
              "U+10C8E", "U+10C8F", "U+10C90", "U+10C91", "U+10C92", "U+10C93", "U+10C94",
              "U+10C95", "U+10C96", "U+10C97", "U+10C98", "U+10C99", "U+10C9A", "U+10C9B",
              "U+10C9C", "U+10C9D", "U+10C9E", "U+10C9F", "U+10CA0", "U+10CA1", "U+10CA2",
              "U+10CA3", "U+10CA4", "U+10CA5", "U+10CA6", "U+10CA7", "U+10CA8", "U+10CA9",
              "U+10CAA", "U+10CAB", "U+10CAC", "U+10CAD", "U+10CAE", "U+10CAF", "U+10CB0",
              "U+10CB1", "U+10CB2", "U+10CC0", "U+10CC1", "U+10CC2", "U+10CC3", "U+10CC4",
              "U+10CC5", "U+10CC6", "U+10CC7", "U+10CC8", "U+10CC9", "U+10CCA", "U+10CCB",
              "U+10CCC", "U+10CCD", "U+10CCE", "U+10CCF", "U+10CD0", "U+10CD1", "U+10CD2",
              "U+10CD3", "U+10CD4", "U+10CD5", "U+10CD6", "U+10CD7", "U+10CD8", "U+10CD9",
              "U+10CDA", "U+10CDB", "U+10CDC", "U+10CDD", "U+10CDE", "U+10CDF", "U+10CE0",
              "U+10CE1", "U+10CE2", "U+10CE3", "U+10CE4", "U+10CE5", "U+10CE6", "U+10CE7",
              "U+10CE8", "U+10CE9", "U+10CEA", "U+10CEB", "U+10CEC", "U+10CED", "U+10CEE",
              "U+10CEF", "U+10CF0", "U+10CF1", "U+10CF2", "U+10D50", "U+10D51", "U+10D52",
              "U+10D53", "U+10D54", "U+10D55", "U+10D56", "U+10D57", "U+10D58", "U+10D59",
              "U+10D5A", "U+10D5B", "U+10D5C", "U+10D5D", "U+10D5E", "U+10D5F", "U+10D60",
              "U+10D61", "U+10D62", "U+10D63", "U+10D64", "U+10D65", "U+10D70", "U+10D71",
              "U+10D72", "U+10D73", "U+10D74", "U+10D75", "U+10D76", "U+10D77", "U+10D78",
              "U+10D79", "U+10D7A", "U+10D7B", "U+10D7C", "U+10D7D", "U+10D7E", "U+10D7F",
              "U+10D80", "U+10D81", "U+10D82", "U+10D83", "U+10D84", "U+10D85", "U+118A0",
              "U+118A1", "U+118A2", "U+118A3", "U+118A4", "U+118A5", "U+118A6", "U+118A7",
              "U+118A8", "U+118A9", "U+118AA", "U+118AB", "U+118AC", "U+118AD", "U+118AE",
              "U+118AF", "U+118B0", "U+118B1", "U+118B2", "U+118B3", "U+118B4", "U+118B5",
              "U+118B6", "U+118B7", "U+118B8", "U+118B9", "U+118BA", "U+118BB", "U+118BC",
              "U+118BD", "U+118BE", "U+118BF", "U+118C0", "U+118C1", "U+118C2", "U+118C3",
              "U+118C4", "U+118C5", "U+118C6", "U+118C7", "U+118C8", "U+118C9", "U+118CA",
              "U+118CB", "U+118CC", "U+118CD", "U+118CE", "U+118CF", "U+118D0", "U+118D1",
              "U+118D2", "U+118D3", "U+118D4", "U+118D5", "U+118D6", "U+118D7", "U+118D8",
              "U+118D9", "U+118DA", "U+118DB", "U+118DC", "U+118DD", "U+118DE", "U+118DF",
              "U+16E40", "U+16E41", "U+16E42", "U+16E43", "U+16E44", "U+16E45", "U+16E46",
              "U+16E47", "U+16E48", "U+16E49", "U+16E4A", "U+16E4B", "U+16E4C", "U+16E4D",
              "U+16E4E", "U+16E4F", "U+16E50", "U+16E51", "U+16E52", "U+16E53", "U+16E54",
              "U+16E55", "U+16E56", "U+16E57", "U+16E58", "U+16E59", "U+16E5A", "U+16E5B",
              "U+16E5C", "U+16E5D", "U+16E5E", "U+16E5F", "U+16E60", "U+16E61", "U+16E62",
              "U+16E63", "U+16E64", "U+16E65", "U+16E66", "U+16E67", "U+16E68", "U+16E69",
              "U+16E6A", "U+16E6B", "U+16E6C", "U+16E6D", "U+16E6E", "U+16E6F", "U+16E70",
              "U+16E71", "U+16E72", "U+16E73", "U+16E74", "U+16E75", "U+16E76", "U+16E77",
              "U+16E78", "U+16E79", "U+16E7A", "U+16E7B", "U+16E7C", "U+16E7D", "U+16E7E",
              "U+16E7F", "U+16EA0", "U+16EA1", "U+16EA2", "U+16EA3", "U+16EA4", "U+16EA5",
              "U+16EA6", "U+16EA7", "U+16EA8", "U+16EA9", "U+16EAA", "U+16EAB", "U+16EAC",
              "U+16EAD", "U+16EAE", "U+16EAF", "U+16EB0", "U+16EB1", "U+16EB2", "U+16EB3",
              "U+16EB4", "U+16EB5", "U+16EB6", "U+16EB7", "U+16EB8", "U+16EBB", "U+16EBC",
              "U+16EBD", "U+16EBE", "U+16EBF", "U+16EC0", "U+16EC1", "U+16EC2", "U+16EC3",
              "U+16EC4", "U+16EC5", "U+16EC6", "U+16EC7", "U+16EC8", "U+16EC9", "U+16ECA",
              "U+16ECB", "U+16ECC", "U+16ECD", "U+16ECE", "U+16ECF", "U+16ED0", "U+16ED1",
              "U+16ED2", "U+16ED3", "U+1D400", "U+1D401", "U+1D402", "U+1D403", "U+1D404",
              "U+1D405", "U+1D406", "U+1D407", "U+1D408", "U+1D409", "U+1D40A", "U+1D40B",
              "U+1D40C", "U+1D40D", "U+1D40E", "U+1D40F", "U+1D410", "U+1D411", "U+1D412",
              "U+1D413", "U+1D414", "U+1D415", "U+1D416", "U+1D417", "U+1D418", "U+1D419",
              "U+1D41A", "U+1D41B", "U+1D41C", "U+1D41D", "U+1D41E", "U+1D41F", "U+1D420",
              "U+1D421", "U+1D422", "U+1D423", "U+1D424", "U+1D425", "U+1D426", "U+1D427",
              "U+1D428", "U+1D429", "U+1D42A", "U+1D42B", "U+1D42C", "U+1D42D", "U+1D42E",
              "U+1D42F", "U+1D430", "U+1D431", "U+1D432", "U+1D433", "U+1D434", "U+1D435",
              "U+1D436", "U+1D437", "U+1D438", "U+1D439", "U+1D43A", "U+1D43B", "U+1D43C",
              "U+1D43D", "U+1D43E", "U+1D43F", "U+1D440", "U+1D441", "U+1D442", "U+1D443",
              "U+1D444", "U+1D445", "U+1D446", "U+1D447", "U+1D448", "U+1D449", "U+1D44A",
              "U+1D44B", "U+1D44C", "U+1D44D", "U+1D44E", "U+1D44F", "U+1D450", "U+1D451",
              "U+1D452", "U+1D453", "U+1D454", "U+1D456", "U+1D457", "U+1D458", "U+1D459",
              "U+1D45A", "U+1D45B", "U+1D45C", "U+1D45D", "U+1D45E", "U+1D45F", "U+1D460",
              "U+1D461", "U+1D462", "U+1D463", "U+1D464", "U+1D465", "U+1D466", "U+1D467",
              "U+1D468", "U+1D469", "U+1D46A", "U+1D46B", "U+1D46C", "U+1D46D", "U+1D46E",
              "U+1D46F", "U+1D470", "U+1D471", "U+1D472", "U+1D473", "U+1D474", "U+1D475",
              "U+1D476", "U+1D477", "U+1D478", "U+1D479", "U+1D47A", "U+1D47B", "U+1D47C",
              "U+1D47D", "U+1D47E", "U+1D47F", "U+1D480", "U+1D481", "U+1D482", "U+1D483",
              "U+1D484", "U+1D485", "U+1D486", "U+1D487", "U+1D488", "U+1D489", "U+1D48A",
              "U+1D48B", "U+1D48C", "U+1D48D", "U+1D48E", "U+1D48F", "U+1D490", "U+1D491",
              "U+1D492", "U+1D493", "U+1D494", "U+1D495", "U+1D496", "U+1D497", "U+1D498",
              "U+1D499", "U+1D49A", "U+1D49B", "U+1D49C", "U+1D49E", "U+1D49F", "U+1D4A2",
              "U+1D4A5", "U+1D4A6", "U+1D4A9", "U+1D4AA", "U+1D4AB", "U+1D4AC", "U+1D4AE",
              "U+1D4AF", "U+1D4B0", "U+1D4B1", "U+1D4B2", "U+1D4B3", "U+1D4B4", "U+1D4B5",
              "U+1D4B6", "U+1D4B7", "U+1D4B8", "U+1D4B9", "U+1D4BB", "U+1D4BD", "U+1D4BE",
              "U+1D4BF", "U+1D4C0", "U+1D4C1", "U+1D4C2", "U+1D4C3", "U+1D4C5", "U+1D4C6",
              "U+1D4C7", "U+1D4C8", "U+1D4C9", "U+1D4CA", "U+1D4CB", "U+1D4CC", "U+1D4CD",
              "U+1D4CE", "U+1D4CF", "U+1D4D0", "U+1D4D1", "U+1D4D2", "U+1D4D3", "U+1D4D4",
              "U+1D4D5", "U+1D4D6", "U+1D4D7", "U+1D4D8", "U+1D4D9", "U+1D4DA", "U+1D4DB",
              "U+1D4DC", "U+1D4DD", "U+1D4DE", "U+1D4DF", "U+1D4E0", "U+1D4E1", "U+1D4E2",
              "U+1D4E3", "U+1D4E4", "U+1D4E5", "U+1D4E6", "U+1D4E7", "U+1D4E8", "U+1D4E9",
              "U+1D4EA", "U+1D4EB", "U+1D4EC", "U+1D4ED", "U+1D4EE", "U+1D4EF", "U+1D4F0",
              "U+1D4F1", "U+1D4F2", "U+1D4F3", "U+1D4F4", "U+1D4F5", "U+1D4F6", "U+1D4F7",
              "U+1D4F8", "U+1D4F9", "U+1D4FA", "U+1D4FB", "U+1D4FC", "U+1D4FD", "U+1D4FE",
              "U+1D4FF", "U+1D500", "U+1D501", "U+1D502", "U+1D503", "U+1D504", "U+1D505",
              "U+1D507", "U+1D508", "U+1D509", "U+1D50A", "U+1D50D", "U+1D50E", "U+1D50F",
              "U+1D510", "U+1D511", "U+1D512", "U+1D513", "U+1D514", "U+1D516", "U+1D517",
              "U+1D518", "U+1D519", "U+1D51A", "U+1D51B", "U+1D51C", "U+1D51E", "U+1D51F",
              "U+1D520", "U+1D521", "U+1D522", "U+1D523", "U+1D524", "U+1D525", "U+1D526",
              "U+1D527", "U+1D528", "U+1D529", "U+1D52A", "U+1D52B", "U+1D52C", "U+1D52D",
              "U+1D52E", "U+1D52F", "U+1D530", "U+1D531", "U+1D532", "U+1D533", "U+1D534",
              "U+1D535", "U+1D536", "U+1D537", "U+1D538", "U+1D539", "U+1D53B", "U+1D53C",
              "U+1D53D", "U+1D53E", "U+1D540", "U+1D541", "U+1D542", "U+1D543", "U+1D544",
              "U+1D546", "U+1D54A", "U+1D54B", "U+1D54C", "U+1D54D", "U+1D54E", "U+1D54F",
              "U+1D550", "U+1D552", "U+1D553", "U+1D554", "U+1D555", "U+1D556", "U+1D557",
              "U+1D558", "U+1D559", "U+1D55A", "U+1D55B", "U+1D55C", "U+1D55D", "U+1D55E",
              "U+1D55F", "U+1D560", "U+1D561", "U+1D562", "U+1D563", "U+1D564", "U+1D565",
              "U+1D566", "U+1D567", "U+1D568", "U+1D569", "U+1D56A", "U+1D56B", "U+1D56C",
              "U+1D56D", "U+1D56E", "U+1D56F", "U+1D570", "U+1D571", "U+1D572", "U+1D573",
              "U+1D574", "U+1D575", "U+1D576", "U+1D577", "U+1D578", "U+1D579", "U+1D57A",
              "U+1D57B", "U+1D57C", "U+1D57D", "U+1D57E", "U+1D57F", "U+1D580", "U+1D581",
              "U+1D582", "U+1D583", "U+1D584", "U+1D585", "U+1D586", "U+1D587", "U+1D588",
              "U+1D589", "U+1D58A", "U+1D58B", "U+1D58C", "U+1D58D", "U+1D58E", "U+1D58F",
              "U+1D590", "U+1D591", "U+1D592", "U+1D593", "U+1D594", "U+1D595", "U+1D596",
              "U+1D597", "U+1D598", "U+1D599", "U+1D59A", "U+1D59B", "U+1D59C", "U+1D59D",
              "U+1D59E", "U+1D59F", "U+1D5A0", "U+1D5A1", "U+1D5A2", "U+1D5A3", "U+1D5A4",
              "U+1D5A5", "U+1D5A6", "U+1D5A7", "U+1D5A8", "U+1D5A9", "U+1D5AA", "U+1D5AB",
              "U+1D5AC", "U+1D5AD", "U+1D5AE", "U+1D5AF", "U+1D5B0", "U+1D5B1", "U+1D5B2",
              "U+1D5B3", "U+1D5B4", "U+1D5B5", "U+1D5B6", "U+1D5B7", "U+1D5B8", "U+1D5B9",
              "U+1D5BA", "U+1D5BB", "U+1D5BC", "U+1D5BD", "U+1D5BE", "U+1D5BF", "U+1D5C0",
              "U+1D5C1", "U+1D5C2", "U+1D5C3", "U+1D5C4", "U+1D5C5", "U+1D5C6", "U+1D5C7",
              "U+1D5C8", "U+1D5C9", "U+1D5CA", "U+1D5CB", "U+1D5CC", "U+1D5CD", "U+1D5CE",
              "U+1D5CF", "U+1D5D0", "U+1D5D1", "U+1D5D2", "U+1D5D3", "U+1D5D4", "U+1D5D5",
              "U+1D5D6", "U+1D5D7", "U+1D5D8", "U+1D5D9", "U+1D5DA", "U+1D5DB", "U+1D5DC",
              "U+1D5DD", "U+1D5DE", "U+1D5DF", "U+1D5E0", "U+1D5E1", "U+1D5E2", "U+1D5E3",
              "U+1D5E4", "U+1D5E5", "U+1D5E6", "U+1D5E7", "U+1D5E8", "U+1D5E9", "U+1D5EA",
              "U+1D5EB", "U+1D5EC", "U+1D5ED", "U+1D5EE", "U+1D5EF", "U+1D5F0", "U+1D5F1",
              "U+1D5F2", "U+1D5F3", "U+1D5F4", "U+1D5F5", "U+1D5F6", "U+1D5F7", "U+1D5F8",
              "U+1D5F9", "U+1D5FA", "U+1D5FB", "U+1D5FC", "U+1D5FD", "U+1D5FE", "U+1D5FF",
              "U+1D600", "U+1D601", "U+1D602", "U+1D603", "U+1D604", "U+1D605", "U+1D606",
              "U+1D607", "U+1D608", "U+1D609", "U+1D60A", "U+1D60B", "U+1D60C", "U+1D60D",
              "U+1D60E", "U+1D60F", "U+1D610", "U+1D611", "U+1D612", "U+1D613", "U+1D614",
              "U+1D615", "U+1D616", "U+1D617", "U+1D618", "U+1D619", "U+1D61A", "U+1D61B",
              "U+1D61C", "U+1D61D", "U+1D61E", "U+1D61F", "U+1D620", "U+1D621", "U+1D622",
              "U+1D623", "U+1D624", "U+1D625", "U+1D626", "U+1D627", "U+1D628", "U+1D629",
              "U+1D62A", "U+1D62B", "U+1D62C", "U+1D62D", "U+1D62E", "U+1D62F", "U+1D630",
              "U+1D631", "U+1D632", "U+1D633", "U+1D634", "U+1D635", "U+1D636", "U+1D637",
              "U+1D638", "U+1D639", "U+1D63A", "U+1D63B", "U+1D63C", "U+1D63D", "U+1D63E",
              "U+1D63F", "U+1D640", "U+1D641", "U+1D642", "U+1D643", "U+1D644", "U+1D645",
              "U+1D646", "U+1D647", "U+1D648", "U+1D649", "U+1D64A", "U+1D64B", "U+1D64C",
              "U+1D64D", "U+1D64E", "U+1D64F", "U+1D650", "U+1D651", "U+1D652", "U+1D653",
              "U+1D654", "U+1D655", "U+1D656", "U+1D657", "U+1D658", "U+1D659", "U+1D65A",
              "U+1D65B", "U+1D65C", "U+1D65D", "U+1D65E", "U+1D65F", "U+1D660", "U+1D661",
              "U+1D662", "U+1D663", "U+1D664", "U+1D665", "U+1D666", "U+1D667", "U+1D668",
              "U+1D669", "U+1D66A", "U+1D66B", "U+1D66C", "U+1D66D", "U+1D66E", "U+1D66F",
              "U+1D670", "U+1D671", "U+1D672", "U+1D673", "U+1D674", "U+1D675", "U+1D676",
              "U+1D677", "U+1D678", "U+1D679", "U+1D67A", "U+1D67B", "U+1D67C", "U+1D67D",
              "U+1D67E", "U+1D67F", "U+1D680", "U+1D681", "U+1D682", "U+1D683", "U+1D684",
              "U+1D685", "U+1D686", "U+1D687", "U+1D688", "U+1D689", "U+1D68A", "U+1D68B",
              "U+1D68C", "U+1D68D", "U+1D68E", "U+1D68F", "U+1D690", "U+1D691", "U+1D692",
              "U+1D693", "U+1D694", "U+1D695", "U+1D696", "U+1D697", "U+1D698", "U+1D699",
              "U+1D69A", "U+1D69B", "U+1D69C", "U+1D69D", "U+1D69E", "U+1D69F", "U+1D6A0",
              "U+1D6A1", "U+1D6A2", "U+1D6A3", "U+1D6A4", "U+1D6A5", "U+1D6A8", "U+1D6A9",
              "U+1D6AA", "U+1D6AB", "U+1D6AC", "U+1D6AD", "U+1D6AE", "U+1D6AF", "U+1D6B0",
              "U+1D6B1", "U+1D6B2", "U+1D6B3", "U+1D6B4", "U+1D6B5", "U+1D6B6", "U+1D6B7",
              "U+1D6B8", "U+1D6B9", "U+1D6BA", "U+1D6BB", "U+1D6BC", "U+1D6BD", "U+1D6BE",
              "U+1D6BF", "U+1D6C0", "U+1D6C2", "U+1D6C3", "U+1D6C4", "U+1D6C5", "U+1D6C6",
              "U+1D6C7", "U+1D6C8", "U+1D6C9", "U+1D6CA", "U+1D6CB", "U+1D6CC", "U+1D6CD",
              "U+1D6CE", "U+1D6CF", "U+1D6D0", "U+1D6D1", "U+1D6D2", "U+1D6D3", "U+1D6D4",
              "U+1D6D5", "U+1D6D6", "U+1D6D7", "U+1D6D8", "U+1D6D9", "U+1D6DA", "U+1D6DC",
              "U+1D6DD", "U+1D6DE", "U+1D6DF", "U+1D6E0", "U+1D6E1", "U+1D6E2", "U+1D6E3",
              "U+1D6E4", "U+1D6E5", "U+1D6E6", "U+1D6E7", "U+1D6E8", "U+1D6E9", "U+1D6EA",
              "U+1D6EB", "U+1D6EC", "U+1D6ED", "U+1D6EE", "U+1D6EF", "U+1D6F0", "U+1D6F1",
              "U+1D6F2", "U+1D6F3", "U+1D6F4", "U+1D6F5", "U+1D6F6", "U+1D6F7", "U+1D6F8",
              "U+1D6F9", "U+1D6FA", "U+1D6FC", "U+1D6FD", "U+1D6FE", "U+1D6FF", "U+1D700",
              "U+1D701", "U+1D702", "U+1D703", "U+1D704", "U+1D705", "U+1D706", "U+1D707",
              "U+1D708", "U+1D709", "U+1D70A", "U+1D70B", "U+1D70C", "U+1D70D", "U+1D70E",
              "U+1D70F", "U+1D710", "U+1D711", "U+1D712", "U+1D713", "U+1D714", "U+1D716",
              "U+1D717", "U+1D718", "U+1D719", "U+1D71A", "U+1D71B", "U+1D71C", "U+1D71D",
              "U+1D71E", "U+1D71F", "U+1D720", "U+1D721", "U+1D722", "U+1D723", "U+1D724",
              "U+1D725", "U+1D726", "U+1D727", "U+1D728", "U+1D729", "U+1D72A", "U+1D72B",
              "U+1D72C", "U+1D72D", "U+1D72E", "U+1D72F", "U+1D730", "U+1D731", "U+1D732",
              "U+1D733", "U+1D734", "U+1D736", "U+1D737", "U+1D738", "U+1D739", "U+1D73A",
              "U+1D73B", "U+1D73C", "U+1D73D", "U+1D73E", "U+1D73F", "U+1D740", "U+1D741",
              "U+1D742", "U+1D743", "U+1D744", "U+1D745", "U+1D746", "U+1D747", "U+1D748",
              "U+1D749", "U+1D74A", "U+1D74B", "U+1D74C", "U+1D74D", "U+1D74E", "U+1D750",
              "U+1D751", "U+1D752", "U+1D753", "U+1D754", "U+1D755", "U+1D756", "U+1D757",
              "U+1D758", "U+1D759", "U+1D75A", "U+1D75B", "U+1D75C", "U+1D75D", "U+1D75E",
              "U+1D75F", "U+1D760", "U+1D761", "U+1D762", "U+1D763", "U+1D764", "U+1D765",
              "U+1D766", "U+1D767", "U+1D768", "U+1D769", "U+1D76A", "U+1D76B", "U+1D76C",
              "U+1D76D", "U+1D76E", "U+1D770", "U+1D771", "U+1D772", "U+1D773", "U+1D774",
              "U+1D775", "U+1D776", "U+1D777", "U+1D778", "U+1D779", "U+1D77A", "U+1D77B",
              "U+1D77C", "U+1D77D", "U+1D77E", "U+1D77F", "U+1D780", "U+1D781", "U+1D782",
              "U+1D783", "U+1D784", "U+1D785", "U+1D786", "U+1D787", "U+1D788", "U+1D78A",
              "U+1D78B", "U+1D78C", "U+1D78D", "U+1D78E", "U+1D78F", "U+1D790", "U+1D791",
              "U+1D792", "U+1D793", "U+1D794", "U+1D795", "U+1D796", "U+1D797", "U+1D798",
              "U+1D799", "U+1D79A", "U+1D79B", "U+1D79C", "U+1D79D", "U+1D79E", "U+1D79F",
              "U+1D7A0", "U+1D7A1", "U+1D7A2", "U+1D7A3", "U+1D7A4", "U+1D7A5", "U+1D7A6",
              "U+1D7A7", "U+1D7A8", "U+1D7AA", "U+1D7AB", "U+1D7AC", "U+1D7AD", "U+1D7AE",
              "U+1D7AF", "U+1D7B0", "U+1D7B1", "U+1D7B2", "U+1D7B3", "U+1D7B4", "U+1D7B5",
              "U+1D7B6", "U+1D7B7", "U+1D7B8", "U+1D7B9", "U+1D7BA", "U+1D7BB", "U+1D7BC",
              "U+1D7BD", "U+1D7BE", "U+1D7BF", "U+1D7C0", "U+1D7C1", "U+1D7C2", "U+1D7C4",
              "U+1D7C5", "U+1D7C6", "U+1D7C7", "U+1D7C8", "U+1D7C9", "U+1D7CA", "U+1D7CB",
              "U+1DF00", "U+1DF01", "U+1DF02", "U+1DF03", "U+1DF04", "U+1DF05", "U+1DF06",
              "U+1DF07", "U+1DF08", "U+1DF09", "U+1DF0B", "U+1DF0C", "U+1DF0D", "U+1DF0E",
              "U+1DF0F", "U+1DF10", "U+1DF11", "U+1DF12", "U+1DF13", "U+1DF14", "U+1DF15",
              "U+1DF16", "U+1DF17", "U+1DF18", "U+1DF19", "U+1DF1A", "U+1DF1B", "U+1DF1C",
              "U+1DF1D", "U+1DF1E", "U+1DF25", "U+1DF26", "U+1DF27", "U+1DF28", "U+1DF29",
              "U+1DF2A", "U+1E900", "U+1E901", "U+1E902", "U+1E903", "U+1E904", "U+1E905",
              "U+1E906", "U+1E907", "U+1E908", "U+1E909", "U+1E90A", "U+1E90B", "U+1E90C",
              "U+1E90D", "U+1E90E", "U+1E90F", "U+1E910", "U+1E911", "U+1E912", "U+1E913",
              "U+1E914", "U+1E915", "U+1E916", "U+1E917", "U+1E918", "U+1E919", "U+1E91A",
              "U+1E91B", "U+1E91C", "U+1E91D", "U+1E91E", "U+1E91F", "U+1E920", "U+1E921",
              "U+1E922", "U+1E923", "U+1E924", "U+1E925", "U+1E926", "U+1E927", "U+1E928",
              "U+1E929", "U+1E92A", "U+1E92B", "U+1E92C", "U+1E92D", "U+1E92E", "U+1E92F",
              "U+1E930", "U+1E931", "U+1E932", "U+1E933", "U+1E934", "U+1E935", "U+1E936",
              "U+1E937", "U+1E938", "U+1E939", "U+1E93A", "U+1E93B", "U+1E93C", "U+1E93D",
              "U+1E93E", "U+1E93F", "U+1E940", "U+1E941", "U+1E942", "U+1E943", "U+1F130",
              "U+1F131", "U+1F132", "U+1F133", "U+1F134", "U+1F135", "U+1F136", "U+1F137",
              "U+1F138", "U+1F139", "U+1F13A", "U+1F13B", "U+1F13C", "U+1F13D", "U+1F13E",
              "U+1F13F", "U+1F140", "U+1F141", "U+1F142", "U+1F143", "U+1F144", "U+1F145",
              "U+1F146", "U+1F147", "U+1F148", "U+1F149", "U+1F150", "U+1F151", "U+1F152",
              "U+1F153", "U+1F154", "U+1F155", "U+1F156", "U+1F157", "U+1F158", "U+1F159",
              "U+1F15A", "U+1F15B", "U+1F15C", "U+1F15D", "U+1F15E", "U+1F15F", "U+1F160",
              "U+1F161", "U+1F162", "U+1F163", "U+1F164", "U+1F165", "U+1F166", "U+1F167",
              "U+1F168", "U+1F169", "U+1F170", "U+1F171", "U+1F172", "U+1F173", "U+1F174",
              "U+1F175", "U+1F176", "U+1F177", "U+1F178", "U+1F179", "U+1F17A", "U+1F17B",
              "U+1F17C", "U+1F17D", "U+1F17E", "U+1F17F", "U+1F180", "U+1F181", "U+1F182",
              "U+1F183", "U+1F184", "U+1F185", "U+1F186", "U+1F187", "U+1F188", "U+1F189" },
      caseIgnorable |->
            {
              "'", ".", ":", "^", "U+0060", "U+00A8", "U+00AD", "U+00AF", "U+00B4", "U+00B7",
              "U+00B8", "U+02B0", "U+02B1", "U+02B2", "U+02B3", "U+02B4", "U+02B5", "U+02B6",
              "U+02B7", "U+02B8", "U+02B9", "U+02BA", "U+02BB", "U+02BC", "U+02BD", "U+02BE",
              "U+02BF", "U+02C0", "U+02C1", "U+02C2", "U+02C3", "U+02C4", "U+02C5", "U+02C6",
              "U+02C7", "U+02C8", "U+02C9", "U+02CA", "U+02CB", "U+02CC", "U+02CD", "U+02CE",
              "U+02CF", "U+02D0", "U+02D1", "U+02D2", "U+02D3", "U+02D4", "U+02D5", "U+02D6",
              "U+02D7", "U+02D8", "U+02D9", "U+02DA", "U+02DB", "U+02DC", "U+02DD", "U+02DE",
              "U+02DF", "U+02E0", "U+02E1", "U+02E2", "U+02E3", "U+02E4", "U+02E5", "U+02E6",
              "U+02E7", "U+02E8", "U+02E9", "U+02EA", "U+02EB", "U+02EC", "U+02ED", "U+02EE",
              "U+02EF", "U+02F0", "U+02F1", "U+02F2", "U+02F3", "U+02F4", "U+02F5", "U+02F6",
              "U+02F7", "U+02F8", "U+02F9", "U+02FA", "U+02FB", "U+02FC", "U+02FD", "U+02FE",
              "U+02FF", "U+0300", "U+0301", "U+0302", "U+0303", "U+0304", "U+0305", "U+0306",
              "U+0307", "U+0308", "U+0309", "U+030A", "U+030B", "U+030C", "U+030D", "U+030E",
              "U+030F", "U+0310", "U+0311", "U+0312", "U+0313", "U+0314", "U+0315", "U+0316",
              "U+0317", "U+0318", "U+0319", "U+031A", "U+031B", "U+031C", "U+031D", "U+031E",
              "U+031F", "U+0320", "U+0321", "U+0322", "U+0323", "U+0324", "U+0325", "U+0326",
              "U+0327", "U+0328", "U+0329", "U+032A", "U+032B", "U+032C", "U+032D", "U+032E",
              "U+032F", "U+0330", "U+0331", "U+0332", "U+0333", "U+0334", "U+0335", "U+0336",
              "U+0337", "U+0338", "U+0339", "U+033A", "U+033B", "U+033C", "U+033D", "U+033E",
              "U+033F", "U+0340", "U+0341", "U+0342", "U+0343", "U+0344", "U+0345", "U+0346",
              "U+0347", "U+0348", "U+0349", "U+034A", "U+034B", "U+034C", "U+034D", "U+034E",
              "U+034F", "U+0350", "U+0351", "U+0352", "U+0353", "U+0354", "U+0355", "U+0356",
              "U+0357", "U+0358", "U+0359", "U+035A", "U+035B", "U+035C", "U+035D", "U+035E",
              "U+035F", "U+0360", "U+0361", "U+0362", "U+0363", "U+0364", "U+0365", "U+0366",
              "U+0367", "U+0368", "U+0369", "U+036A", "U+036B", "U+036C", "U+036D", "U+036E",
              "U+036F", "U+0374", "U+0375", "U+037A", "U+0384", "U+0385", "U+0387", "U+0483",
              "U+0484", "U+0485", "U+0486", "U+0487", "U+0488", "U+0489", "U+0559", "U+055F",
              "U+0591", "U+0592", "U+0593", "U+0594", "U+0595", "U+0596", "U+0597", "U+0598",
              "U+0599", "U+059A", "U+059B", "U+059C", "U+059D", "U+059E", "U+059F", "U+05A0",
              "U+05A1", "U+05A2", "U+05A3", "U+05A4", "U+05A5", "U+05A6", "U+05A7", "U+05A8",
              "U+05A9", "U+05AA", "U+05AB", "U+05AC", "U+05AD", "U+05AE", "U+05AF", "U+05B0",
              "U+05B1", "U+05B2", "U+05B3", "U+05B4", "U+05B5", "U+05B6", "U+05B7", "U+05B8",
              "U+05B9", "U+05BA", "U+05BB", "U+05BC", "U+05BD", "U+05BF", "U+05C1", "U+05C2",
              "U+05C4", "U+05C5", "U+05C7", "U+05F4", "U+0600", "U+0601", "U+0602", "U+0603",
              "U+0604", "U+0605", "U+0610", "U+0611", "U+0612", "U+0613", "U+0614", "U+0615",
              "U+0616", "U+0617", "U+0618", "U+0619", "U+061A", "U+061C", "U+0640", "U+064B",
              "U+064C", "U+064D", "U+064E", "U+064F", "U+0650", "U+0651", "U+0652", "U+0653",
              "U+0654", "U+0655", "U+0656", "U+0657", "U+0658", "U+0659", "U+065A", "U+065B",
              "U+065C", "U+065D", "U+065E", "U+065F", "U+0670", "U+06D6", "U+06D7", "U+06D8",
              "U+06D9", "U+06DA", "U+06DB", "U+06DC", "U+06DD", "U+06DF", "U+06E0", "U+06E1",
              "U+06E2", "U+06E3", "U+06E4", "U+06E5", "U+06E6", "U+06E7", "U+06E8", "U+06EA",
              "U+06EB", "U+06EC", "U+06ED", "U+070F", "U+0711", "U+0730", "U+0731", "U+0732",
              "U+0733", "U+0734", "U+0735", "U+0736", "U+0737", "U+0738", "U+0739", "U+073A",
              "U+073B", "U+073C", "U+073D", "U+073E", "U+073F", "U+0740", "U+0741", "U+0742",
              "U+0743", "U+0744", "U+0745", "U+0746", "U+0747", "U+0748", "U+0749", "U+074A",
              "U+07A6", "U+07A7", "U+07A8", "U+07A9", "U+07AA", "U+07AB", "U+07AC", "U+07AD",
              "U+07AE", "U+07AF", "U+07B0", "U+07EB", "U+07EC", "U+07ED", "U+07EE", "U+07EF",
              "U+07F0", "U+07F1", "U+07F2", "U+07F3", "U+07F4", "U+07F5", "U+07FA", "U+07FD",
              "U+0816", "U+0817", "U+0818", "U+0819", "U+081A", "U+081B", "U+081C", "U+081D",
              "U+081E", "U+081F", "U+0820", "U+0821", "U+0822", "U+0823", "U+0824", "U+0825",
              "U+0826", "U+0827", "U+0828", "U+0829", "U+082A", "U+082B", "U+082C", "U+082D",
              "U+0859", "U+085A", "U+085B", "U+0888", "U+0890", "U+0891", "U+0897", "U+0898",
              "U+0899", "U+089A", "U+089B", "U+089C", "U+089D", "U+089E", "U+089F", "U+08C9",
              "U+08CA", "U+08CB", "U+08CC", "U+08CD", "U+08CE", "U+08CF", "U+08D0", "U+08D1",
              "U+08D2", "U+08D3", "U+08D4", "U+08D5", "U+08D6", "U+08D7", "U+08D8", "U+08D9",
              "U+08DA", "U+08DB", "U+08DC", "U+08DD", "U+08DE", "U+08DF", "U+08E0", "U+08E1",
              "U+08E2", "U+08E3", "U+08E4", "U+08E5", "U+08E6", "U+08E7", "U+08E8", "U+08E9",
              "U+08EA", "U+08EB", "U+08EC", "U+08ED", "U+08EE", "U+08EF", "U+08F0", "U+08F1",
              "U+08F2", "U+08F3", "U+08F4", "U+08F5", "U+08F6", "U+08F7", "U+08F8", "U+08F9",
              "U+08FA", "U+08FB", "U+08FC", "U+08FD", "U+08FE", "U+08FF", "U+0900", "U+0901",
              "U+0902", "U+093A", "U+093C", "U+0941", "U+0942", "U+0943", "U+0944", "U+0945",
              "U+0946", "U+0947", "U+0948", "U+094D", "U+0951", "U+0952", "U+0953", "U+0954",
              "U+0955", "U+0956", "U+0957", "U+0962", "U+0963", "U+0971", "U+0981", "U+09BC",
              "U+09C1", "U+09C2", "U+09C3", "U+09C4", "U+09CD", "U+09E2", "U+09E3", "U+09FE",
              "U+0A01", "U+0A02", "U+0A3C", "U+0A41", "U+0A42", "U+0A47", "U+0A48", "U+0A4B",
              "U+0A4C", "U+0A4D", "U+0A51", "U+0A70", "U+0A71", "U+0A75", "U+0A81", "U+0A82",
              "U+0ABC", "U+0AC1", "U+0AC2", "U+0AC3", "U+0AC4", "U+0AC5", "U+0AC7", "U+0AC8",
              "U+0ACD", "U+0AE2", "U+0AE3", "U+0AFA", "U+0AFB", "U+0AFC", "U+0AFD", "U+0AFE",
              "U+0AFF", "U+0B01", "U+0B3C", "U+0B3F", "U+0B41", "U+0B42", "U+0B43", "U+0B44",
              "U+0B4D", "U+0B55", "U+0B56", "U+0B62", "U+0B63", "U+0B82", "U+0BC0", "U+0BCD",
              "U+0C00", "U+0C04", "U+0C3C", "U+0C3E", "U+0C3F", "U+0C40", "U+0C46", "U+0C47",
              "U+0C48", "U+0C4A", "U+0C4B", "U+0C4C", "U+0C4D", "U+0C55", "U+0C56", "U+0C62",
              "U+0C63", "U+0C81", "U+0CBC", "U+0CBF", "U+0CC6", "U+0CCC", "U+0CCD", "U+0CE2",
              "U+0CE3", "U+0D00", "U+0D01", "U+0D3B", "U+0D3C", "U+0D41", "U+0D42", "U+0D43",
              "U+0D44", "U+0D4D", "U+0D62", "U+0D63", "U+0D81", "U+0DCA", "U+0DD2", "U+0DD3",
              "U+0DD4", "U+0DD6", "U+0E31", "U+0E34", "U+0E35", "U+0E36", "U+0E37", "U+0E38",
              "U+0E39", "U+0E3A", "U+0E46", "U+0E47", "U+0E48", "U+0E49", "U+0E4A", "U+0E4B",
              "U+0E4C", "U+0E4D", "U+0E4E", "U+0EB1", "U+0EB4", "U+0EB5", "U+0EB6", "U+0EB7",
              "U+0EB8", "U+0EB9", "U+0EBA", "U+0EBB", "U+0EBC", "U+0EC6", "U+0EC8", "U+0EC9",
              "U+0ECA", "U+0ECB", "U+0ECC", "U+0ECD", "U+0ECE", "U+0F18", "U+0F19", "U+0F35",
              "U+0F37", "U+0F39", "U+0F71", "U+0F72", "U+0F73", "U+0F74", "U+0F75", "U+0F76",
              "U+0F77", "U+0F78", "U+0F79", "U+0F7A", "U+0F7B", "U+0F7C", "U+0F7D", "U+0F7E",
              "U+0F80", "U+0F81", "U+0F82", "U+0F83", "U+0F84", "U+0F86", "U+0F87", "U+0F8D",
              "U+0F8E", "U+0F8F", "U+0F90", "U+0F91", "U+0F92", "U+0F93", "U+0F94", "U+0F95",
              "U+0F96", "U+0F97", "U+0F99", "U+0F9A", "U+0F9B", "U+0F9C", "U+0F9D", "U+0F9E",
              "U+0F9F", "U+0FA0", "U+0FA1", "U+0FA2", "U+0FA3", "U+0FA4", "U+0FA5", "U+0FA6",
              "U+0FA7", "U+0FA8", "U+0FA9", "U+0FAA", "U+0FAB", "U+0FAC", "U+0FAD", "U+0FAE",
              "U+0FAF", "U+0FB0", "U+0FB1", "U+0FB2", "U+0FB3", "U+0FB4", "U+0FB5", "U+0FB6",
              "U+0FB7", "U+0FB8", "U+0FB9", "U+0FBA", "U+0FBB", "U+0FBC", "U+0FC6", "U+102D",
              "U+102E", "U+102F", "U+1030", "U+1032", "U+1033", "U+1034", "U+1035", "U+1036",
              "U+1037", "U+1039", "U+103A", "U+103D", "U+103E", "U+1058", "U+1059", "U+105E",
              "U+105F", "U+1060", "U+1071", "U+1072", "U+1073", "U+1074", "U+1082", "U+1085",
              "U+1086", "U+108D", "U+109D", "U+10FC", "U+135D", "U+135E", "U+135F", "U+1712",
              "U+1713", "U+1714", "U+1732", "U+1733", "U+1752", "U+1753", "U+1772", "U+1773",
              "U+17B4", "U+17B5", "U+17B7", "U+17B8", "U+17B9", "U+17BA", "U+17BB", "U+17BC",
              "U+17BD", "U+17C6", "U+17C9", "U+17CA", "U+17CB", "U+17CC", "U+17CD", "U+17CE",
              "U+17CF", "U+17D0", "U+17D1", "U+17D2", "U+17D3", "U+17D7", "U+17DD", "U+180B",
              "U+180C", "U+180D", "U+180E", "U+180F", "U+1843", "U+1885", "U+1886", "U+18A9",
              "U+1920", "U+1921", "U+1922", "U+1927", "U+1928", "U+1932", "U+1939", "U+193A",
              "U+193B", "U+1A17", "U+1A18", "U+1A1B", "U+1A56", "U+1A58", "U+1A59", "U+1A5A",
              "U+1A5B", "U+1A5C", "U+1A5D", "U+1A5E", "U+1A60", "U+1A62", "U+1A65", "U+1A66",
              "U+1A67", "U+1A68", "U+1A69", "U+1A6A", "U+1A6B", "U+1A6C", "U+1A73", "U+1A74",
              "U+1A75", "U+1A76", "U+1A77", "U+1A78", "U+1A79", "U+1A7A", "U+1A7B", "U+1A7C",
              "U+1A7F", "U+1AA7", "U+1AB0", "U+1AB1", "U+1AB2", "U+1AB3", "U+1AB4", "U+1AB5",
              "U+1AB6", "U+1AB7", "U+1AB8", "U+1AB9", "U+1ABA", "U+1ABB", "U+1ABC", "U+1ABD",
              "U+1ABE", "U+1ABF", "U+1AC0", "U+1AC1", "U+1AC2", "U+1AC3", "U+1AC4", "U+1AC5",
              "U+1AC6", "U+1AC7", "U+1AC8", "U+1AC9", "U+1ACA", "U+1ACB", "U+1ACC", "U+1ACD",
              "U+1ACE", "U+1ACF", "U+1AD0", "U+1AD1", "U+1AD2", "U+1AD3", "U+1AD4", "U+1AD5",
              "U+1AD6", "U+1AD7", "U+1AD8", "U+1AD9", "U+1ADA", "U+1ADB", "U+1ADC", "U+1ADD",
              "U+1AE0", "U+1AE1", "U+1AE2", "U+1AE3", "U+1AE4", "U+1AE5", "U+1AE6", "U+1AE7",
              "U+1AE8", "U+1AE9", "U+1AEA", "U+1AEB", "U+1B00", "U+1B01", "U+1B02", "U+1B03",
              "U+1B34", "U+1B36", "U+1B37", "U+1B38", "U+1B39", "U+1B3A", "U+1B3C", "U+1B42",
              "U+1B6B", "U+1B6C", "U+1B6D", "U+1B6E", "U+1B6F", "U+1B70", "U+1B71", "U+1B72",
              "U+1B73", "U+1B80", "U+1B81", "U+1BA2", "U+1BA3", "U+1BA4", "U+1BA5", "U+1BA8",
              "U+1BA9", "U+1BAB", "U+1BAC", "U+1BAD", "U+1BE6", "U+1BE8", "U+1BE9", "U+1BED",
              "U+1BEF", "U+1BF0", "U+1BF1", "U+1C2C", "U+1C2D", "U+1C2E", "U+1C2F", "U+1C30",
              "U+1C31", "U+1C32", "U+1C33", "U+1C36", "U+1C37", "U+1C78", "U+1C79", "U+1C7A",
              "U+1C7B", "U+1C7C", "U+1C7D", "U+1CD0", "U+1CD1", "U+1CD2", "U+1CD4", "U+1CD5",
              "U+1CD6", "U+1CD7", "U+1CD8", "U+1CD9", "U+1CDA", "U+1CDB", "U+1CDC", "U+1CDD",
              "U+1CDE", "U+1CDF", "U+1CE0", "U+1CE2", "U+1CE3", "U+1CE4", "U+1CE5", "U+1CE6",
              "U+1CE7", "U+1CE8", "U+1CED", "U+1CF4", "U+1CF8", "U+1CF9", "U+1D2C", "U+1D2D",
              "U+1D2E", "U+1D2F", "U+1D30", "U+1D31", "U+1D32", "U+1D33", "U+1D34", "U+1D35",
              "U+1D36", "U+1D37", "U+1D38", "U+1D39", "U+1D3A", "U+1D3B", "U+1D3C", "U+1D3D",
              "U+1D3E", "U+1D3F", "U+1D40", "U+1D41", "U+1D42", "U+1D43", "U+1D44", "U+1D45",
              "U+1D46", "U+1D47", "U+1D48", "U+1D49", "U+1D4A", "U+1D4B", "U+1D4C", "U+1D4D",
              "U+1D4E", "U+1D4F", "U+1D50", "U+1D51", "U+1D52", "U+1D53", "U+1D54", "U+1D55",
              "U+1D56", "U+1D57", "U+1D58", "U+1D59", "U+1D5A", "U+1D5B", "U+1D5C", "U+1D5D",
              "U+1D5E", "U+1D5F", "U+1D60", "U+1D61", "U+1D62", "U+1D63", "U+1D64", "U+1D65",
              "U+1D66", "U+1D67", "U+1D68", "U+1D69", "U+1D6A", "U+1D78", "U+1D9B", "U+1D9C",
              "U+1D9D", "U+1D9E", "U+1D9F", "U+1DA0", "U+1DA1", "U+1DA2", "U+1DA3", "U+1DA4",
              "U+1DA5", "U+1DA6", "U+1DA7", "U+1DA8", "U+1DA9", "U+1DAA", "U+1DAB", "U+1DAC",
              "U+1DAD", "U+1DAE", "U+1DAF", "U+1DB0", "U+1DB1", "U+1DB2", "U+1DB3", "U+1DB4",
              "U+1DB5", "U+1DB6", "U+1DB7", "U+1DB8", "U+1DB9", "U+1DBA", "U+1DBB", "U+1DBC",
              "U+1DBD", "U+1DBE", "U+1DBF", "U+1DC0", "U+1DC1", "U+1DC2", "U+1DC3", "U+1DC4",
              "U+1DC5", "U+1DC6", "U+1DC7", "U+1DC8", "U+1DC9", "U+1DCA", "U+1DCB", "U+1DCC",
              "U+1DCD", "U+1DCE", "U+1DCF", "U+1DD0", "U+1DD1", "U+1DD2", "U+1DD3", "U+1DD4",
              "U+1DD5", "U+1DD6", "U+1DD7", "U+1DD8", "U+1DD9", "U+1DDA", "U+1DDB", "U+1DDC",
              "U+1DDD", "U+1DDE", "U+1DDF", "U+1DE0", "U+1DE1", "U+1DE2", "U+1DE3", "U+1DE4",
              "U+1DE5", "U+1DE6", "U+1DE7", "U+1DE8", "U+1DE9", "U+1DEA", "U+1DEB", "U+1DEC",
              "U+1DED", "U+1DEE", "U+1DEF", "U+1DF0", "U+1DF1", "U+1DF2", "U+1DF3", "U+1DF4",
              "U+1DF5", "U+1DF6", "U+1DF7", "U+1DF8", "U+1DF9", "U+1DFA", "U+1DFB", "U+1DFC",
              "U+1DFD", "U+1DFE", "U+1DFF", "U+1FBD", "U+1FBF", "U+1FC0", "U+1FC1", "U+1FCD",
              "U+1FCE", "U+1FCF", "U+1FDD", "U+1FDE", "U+1FDF", "U+1FED", "U+1FEE", "U+1FEF",
              "U+1FFD", "U+1FFE", "U+200B", "U+200C", "U+200D", "U+200E", "U+200F", "U+2018",
              "U+2019", "U+2024", "U+2027", "U+202A", "U+202B", "U+202C", "U+202D", "U+202E",
              "U+2060", "U+2061", "U+2062", "U+2063", "U+2064", "U+2066", "U+2067", "U+2068",
              "U+2069", "U+206A", "U+206B", "U+206C", "U+206D", "U+206E", "U+206F", "U+2071",
              "U+207F", "U+2090", "U+2091", "U+2092", "U+2093", "U+2094", "U+2095", "U+2096",
              "U+2097", "U+2098", "U+2099", "U+209A", "U+209B", "U+209C", "U+20D0", "U+20D1",
              "U+20D2", "U+20D3", "U+20D4", "U+20D5", "U+20D6", "U+20D7", "U+20D8", "U+20D9",
              "U+20DA", "U+20DB", "U+20DC", "U+20DD", "U+20DE", "U+20DF", "U+20E0", "U+20E1",
              "U+20E2", "U+20E3", "U+20E4", "U+20E5", "U+20E6", "U+20E7", "U+20E8", "U+20E9",
              "U+20EA", "U+20EB", "U+20EC", "U+20ED", "U+20EE", "U+20EF", "U+20F0", "U+2C7C",
              "U+2C7D", "U+2CEF", "U+2CF0", "U+2CF1", "U+2D6F", "U+2D7F", "U+2DE0", "U+2DE1",
              "U+2DE2", "U+2DE3", "U+2DE4", "U+2DE5", "U+2DE6", "U+2DE7", "U+2DE8", "U+2DE9",
              "U+2DEA", "U+2DEB", "U+2DEC", "U+2DED", "U+2DEE", "U+2DEF", "U+2DF0", "U+2DF1",
              "U+2DF2", "U+2DF3", "U+2DF4", "U+2DF5", "U+2DF6", "U+2DF7", "U+2DF8", "U+2DF9",
              "U+2DFA", "U+2DFB", "U+2DFC", "U+2DFD", "U+2DFE", "U+2DFF", "U+2E2F", "U+3005",
              "U+302A", "U+302B", "U+302C", "U+302D", "U+3031", "U+3032", "U+3033", "U+3034",
              "U+3035", "U+303B", "U+3099", "U+309A", "U+309B", "U+309C", "U+309D", "U+309E",
              "U+30FC", "U+30FD", "U+30FE", "U+A015", "U+A4F8", "U+A4F9", "U+A4FA", "U+A4FB",
              "U+A4FC", "U+A4FD", "U+A60C", "U+A66F", "U+A670", "U+A671", "U+A672", "U+A674",
              "U+A675", "U+A676", "U+A677", "U+A678", "U+A679", "U+A67A", "U+A67B", "U+A67C",
              "U+A67D", "U+A67F", "U+A69C", "U+A69D", "U+A69E", "U+A69F", "U+A6F0", "U+A6F1",
              "U+A700", "U+A701", "U+A702", "U+A703", "U+A704", "U+A705", "U+A706", "U+A707",
              "U+A708", "U+A709", "U+A70A", "U+A70B", "U+A70C", "U+A70D", "U+A70E", "U+A70F",
              "U+A710", "U+A711", "U+A712", "U+A713", "U+A714", "U+A715", "U+A716", "U+A717",
              "U+A718", "U+A719", "U+A71A", "U+A71B", "U+A71C", "U+A71D", "U+A71E", "U+A71F",
              "U+A720", "U+A721", "U+A770", "U+A788", "U+A789", "U+A78A", "U+A7F1", "U+A7F2",
              "U+A7F3", "U+A7F4", "U+A7F8", "U+A7F9", "U+A802", "U+A806", "U+A80B", "U+A825",
              "U+A826", "U+A82C", "U+A8C4", "U+A8C5", "U+A8E0", "U+A8E1", "U+A8E2", "U+A8E3",
              "U+A8E4", "U+A8E5", "U+A8E6", "U+A8E7", "U+A8E8", "U+A8E9", "U+A8EA", "U+A8EB",
              "U+A8EC", "U+A8ED", "U+A8EE", "U+A8EF", "U+A8F0", "U+A8F1", "U+A8FF", "U+A926",
              "U+A927", "U+A928", "U+A929", "U+A92A", "U+A92B", "U+A92C", "U+A92D", "U+A947",
              "U+A948", "U+A949", "U+A94A", "U+A94B", "U+A94C", "U+A94D", "U+A94E", "U+A94F",
              "U+A950", "U+A951", "U+A980", "U+A981", "U+A982", "U+A9B3", "U+A9B6", "U+A9B7",
              "U+A9B8", "U+A9B9", "U+A9BC", "U+A9BD", "U+A9CF", "U+A9E5", "U+A9E6", "U+AA29",
              "U+AA2A", "U+AA2B", "U+AA2C", "U+AA2D", "U+AA2E", "U+AA31", "U+AA32", "U+AA35",
              "U+AA36", "U+AA43", "U+AA4C", "U+AA70", "U+AA7C", "U+AAB0", "U+AAB2", "U+AAB3",
              "U+AAB4", "U+AAB7", "U+AAB8", "U+AABE", "U+AABF", "U+AAC1", "U+AADD", "U+AAEC",
              "U+AAED", "U+AAF3", "U+AAF4", "U+AAF6", "U+AB5B", "U+AB5C", "U+AB5D", "U+AB5E",
              "U+AB5F", "U+AB69", "U+AB6A", "U+AB6B", "U+ABE5", "U+ABE8", "U+ABED", "U+FB1E",
              "U+FBB2", "U+FBB3", "U+FBB4", "U+FBB5", "U+FBB6", "U+FBB7", "U+FBB8", "U+FBB9",
              "U+FBBA", "U+FBBB", "U+FBBC", "U+FBBD", "U+FBBE", "U+FBBF", "U+FBC0", "U+FBC1",
              "U+FBC2", "U+FE00", "U+FE01", "U+FE02", "U+FE03", "U+FE04", "U+FE05", "U+FE06",
              "U+FE07", "U+FE08", "U+FE09", "U+FE0A", "U+FE0B", "U+FE0C", "U+FE0D", "U+FE0E",
              "U+FE0F", "U+FE13", "U+FE20", "U+FE21", "U+FE22", "U+FE23", "U+FE24", "U+FE25",
              "U+FE26", "U+FE27", "U+FE28", "U+FE29", "U+FE2A", "U+FE2B", "U+FE2C", "U+FE2D",
              "U+FE2E", "U+FE2F", "U+FE52", "U+FE55", "U+FEFF", "U+FF07", "U+FF0E", "U+FF1A",
              "U+FF3E", "U+FF40", "U+FF70", "U+FF9E", "U+FF9F", "U+FFE3", "U+FFF9", "U+FFFA",
              "U+FFFB", "U+101FD", "U+102E0", "U+10376", "U+10377", "U+10378", "U+10379",
              "U+1037A", "U+10780", "U+10781", "U+10782", "U+10783", "U+10784", "U+10785",
              "U+10787", "U+10788", "U+10789", "U+1078A", "U+1078B", "U+1078C", "U+1078D",
              "U+1078E", "U+1078F", "U+10790", "U+10791", "U+10792", "U+10793", "U+10794",
              "U+10795", "U+10796", "U+10797", "U+10798", "U+10799", "U+1079A", "U+1079B",
              "U+1079C", "U+1079D", "U+1079E", "U+1079F", "U+107A0", "U+107A1", "U+107A2",
              "U+107A3", "U+107A4", "U+107A5", "U+107A6", "U+107A7", "U+107A8", "U+107A9",
              "U+107AA", "U+107AB", "U+107AC", "U+107AD", "U+107AE", "U+107AF", "U+107B0",
              "U+107B2", "U+107B3", "U+107B4", "U+107B5", "U+107B6", "U+107B7", "U+107B8",
              "U+107B9", "U+107BA", "U+10A01", "U+10A02", "U+10A03", "U+10A05", "U+10A06",
              "U+10A0C", "U+10A0D", "U+10A0E", "U+10A0F", "U+10A38", "U+10A39", "U+10A3A",
              "U+10A3F", "U+10AE5", "U+10AE6", "U+10D24", "U+10D25", "U+10D26", "U+10D27",
              "U+10D4E", "U+10D69", "U+10D6A", "U+10D6B", "U+10D6C", "U+10D6D", "U+10D6F",
              "U+10EAB", "U+10EAC", "U+10EC5", "U+10EFA", "U+10EFB", "U+10EFC", "U+10EFD",
              "U+10EFE", "U+10EFF", "U+10F46", "U+10F47", "U+10F48", "U+10F49", "U+10F4A",
              "U+10F4B", "U+10F4C", "U+10F4D", "U+10F4E", "U+10F4F", "U+10F50", "U+10F82",
              "U+10F83", "U+10F84", "U+10F85", "U+11001", "U+11038", "U+11039", "U+1103A",
              "U+1103B", "U+1103C", "U+1103D", "U+1103E", "U+1103F", "U+11040", "U+11041",
              "U+11042", "U+11043", "U+11044", "U+11045", "U+11046", "U+11070", "U+11073",
              "U+11074", "U+1107F", "U+11080", "U+11081", "U+110B3", "U+110B4", "U+110B5",
              "U+110B6", "U+110B9", "U+110BA", "U+110BD", "U+110C2", "U+110CD", "U+11100",
              "U+11101", "U+11102", "U+11127", "U+11128", "U+11129", "U+1112A", "U+1112B",
              "U+1112D", "U+1112E", "U+1112F", "U+11130", "U+11131", "U+11132", "U+11133",
              "U+11134", "U+11173", "U+11180", "U+11181", "U+111B6", "U+111B7", "U+111B8",
              "U+111B9", "U+111BA", "U+111BB", "U+111BC", "U+111BD", "U+111BE", "U+111C9",
              "U+111CA", "U+111CB", "U+111CC", "U+111CF", "U+1122F", "U+11230", "U+11231",
              "U+11234", "U+11236", "U+11237", "U+1123E", "U+11241", "U+112DF", "U+112E3",
              "U+112E4", "U+112E5", "U+112E6", "U+112E7", "U+112E8", "U+112E9", "U+112EA",
              "U+11300", "U+11301", "U+1133B", "U+1133C", "U+11340", "U+11366", "U+11367",
              "U+11368", "U+11369", "U+1136A", "U+1136B", "U+1136C", "U+11370", "U+11371",
              "U+11372", "U+11373", "U+11374", "U+113BB", "U+113BC", "U+113BD", "U+113BE",
              "U+113BF", "U+113C0", "U+113CE", "U+113D0", "U+113D2", "U+113E1", "U+113E2",
              "U+11438", "U+11439", "U+1143A", "U+1143B", "U+1143C", "U+1143D", "U+1143E",
              "U+1143F", "U+11442", "U+11443", "U+11444", "U+11446", "U+1145E", "U+114B3",
              "U+114B4", "U+114B5", "U+114B6", "U+114B7", "U+114B8", "U+114BA", "U+114BF",
              "U+114C0", "U+114C2", "U+114C3", "U+115B2", "U+115B3", "U+115B4", "U+115B5",
              "U+115BC", "U+115BD", "U+115BF", "U+115C0", "U+115DC", "U+115DD", "U+11633",
              "U+11634", "U+11635", "U+11636", "U+11637", "U+11638", "U+11639", "U+1163A",
              "U+1163D", "U+1163F", "U+11640", "U+116AB", "U+116AD", "U+116B0", "U+116B1",
              "U+116B2", "U+116B3", "U+116B4", "U+116B5", "U+116B7", "U+1171D", "U+1171F",
              "U+11722", "U+11723", "U+11724", "U+11725", "U+11727", "U+11728", "U+11729",
              "U+1172A", "U+1172B", "U+1182F", "U+11830", "U+11831", "U+11832", "U+11833",
              "U+11834", "U+11835", "U+11836", "U+11837", "U+11839", "U+1183A", "U+1193B",
              "U+1193C", "U+1193E", "U+11943", "U+119D4", "U+119D5", "U+119D6", "U+119D7",
              "U+119DA", "U+119DB", "U+119E0", "U+11A01", "U+11A02", "U+11A03", "U+11A04",
              "U+11A05", "U+11A06", "U+11A07", "U+11A08", "U+11A09", "U+11A0A", "U+11A33",
              "U+11A34", "U+11A35", "U+11A36", "U+11A37", "U+11A38", "U+11A3B", "U+11A3C",
              "U+11A3D", "U+11A3E", "U+11A47", "U+11A51", "U+11A52", "U+11A53", "U+11A54",
              "U+11A55", "U+11A56", "U+11A59", "U+11A5A", "U+11A5B", "U+11A8A", "U+11A8B",
              "U+11A8C", "U+11A8D", "U+11A8E", "U+11A8F", "U+11A90", "U+11A91", "U+11A92",
              "U+11A93", "U+11A94", "U+11A95", "U+11A96", "U+11A98", "U+11A99", "U+11B60",
              "U+11B62", "U+11B63", "U+11B64", "U+11B66", "U+11C30", "U+11C31", "U+11C32",
              "U+11C33", "U+11C34", "U+11C35", "U+11C36", "U+11C38", "U+11C39", "U+11C3A",
              "U+11C3B", "U+11C3C", "U+11C3D", "U+11C3F", "U+11C92", "U+11C93", "U+11C94",
              "U+11C95", "U+11C96", "U+11C97", "U+11C98", "U+11C99", "U+11C9A", "U+11C9B",
              "U+11C9C", "U+11C9D", "U+11C9E", "U+11C9F", "U+11CA0", "U+11CA1", "U+11CA2",
              "U+11CA3", "U+11CA4", "U+11CA5", "U+11CA6", "U+11CA7", "U+11CAA", "U+11CAB",
              "U+11CAC", "U+11CAD", "U+11CAE", "U+11CAF", "U+11CB0", "U+11CB2", "U+11CB3",
              "U+11CB5", "U+11CB6", "U+11D31", "U+11D32", "U+11D33", "U+11D34", "U+11D35",
              "U+11D36", "U+11D3A", "U+11D3C", "U+11D3D", "U+11D3F", "U+11D40", "U+11D41",
              "U+11D42", "U+11D43", "U+11D44", "U+11D45", "U+11D47", "U+11D90", "U+11D91",
              "U+11D95", "U+11D97", "U+11DD9", "U+11EF3", "U+11EF4", "U+11F00", "U+11F01",
              "U+11F36", "U+11F37", "U+11F38", "U+11F39", "U+11F3A", "U+11F40", "U+11F42",
              "U+11F5A", "U+13430", "U+13431", "U+13432", "U+13433", "U+13434", "U+13435",
              "U+13436", "U+13437", "U+13438", "U+13439", "U+1343A", "U+1343B", "U+1343C",
              "U+1343D", "U+1343E", "U+1343F", "U+13440", "U+13447", "U+13448", "U+13449",
              "U+1344A", "U+1344B", "U+1344C", "U+1344D", "U+1344E", "U+1344F", "U+13450",
              "U+13451", "U+13452", "U+13453", "U+13454", "U+13455", "U+1611E", "U+1611F",
              "U+16120", "U+16121", "U+16122", "U+16123", "U+16124", "U+16125", "U+16126",
              "U+16127", "U+16128", "U+16129", "U+1612D", "U+1612E", "U+1612F", "U+16AF0",
              "U+16AF1", "U+16AF2", "U+16AF3", "U+16AF4", "U+16B30", "U+16B31", "U+16B32",
              "U+16B33", "U+16B34", "U+16B35", "U+16B36", "U+16B40", "U+16B41", "U+16B42",
              "U+16B43", "U+16D40", "U+16D41", "U+16D42", "U+16D6B", "U+16D6C", "U+16F4F",
              "U+16F8F", "U+16F90", "U+16F91", "U+16F92", "U+16F93", "U+16F94", "U+16F95",
              "U+16F96", "U+16F97", "U+16F98", "U+16F99", "U+16F9A", "U+16F9B", "U+16F9C",
              "U+16F9D", "U+16F9E", "U+16F9F", "U+16FE0", "U+16FE1", "U+16FE3", "U+16FE4",
              "U+16FF2", "U+16FF3", "U+1AFF0", "U+1AFF1", "U+1AFF2", "U+1AFF3", "U+1AFF5",
              "U+1AFF6", "U+1AFF7", "U+1AFF8", "U+1AFF9", "U+1AFFA", "U+1AFFB", "U+1AFFD",
              "U+1AFFE", "U+1BC9D", "U+1BC9E", "U+1BCA0", "U+1BCA1", "U+1BCA2", "U+1BCA3",
              "U+1CF00", "U+1CF01", "U+1CF02", "U+1CF03", "U+1CF04", "U+1CF05", "U+1CF06",
              "U+1CF07", "U+1CF08", "U+1CF09", "U+1CF0A", "U+1CF0B", "U+1CF0C", "U+1CF0D",
              "U+1CF0E", "U+1CF0F", "U+1CF10", "U+1CF11", "U+1CF12", "U+1CF13", "U+1CF14",
              "U+1CF15", "U+1CF16", "U+1CF17", "U+1CF18", "U+1CF19", "U+1CF1A", "U+1CF1B",
              "U+1CF1C", "U+1CF1D", "U+1CF1E", "U+1CF1F", "U+1CF20", "U+1CF21", "U+1CF22",
              "U+1CF23", "U+1CF24", "U+1CF25", "U+1CF26", "U+1CF27", "U+1CF28", "U+1CF29",
              "U+1CF2A", "U+1CF2B", "U+1CF2C", "U+1CF2D", "U+1CF30", "U+1CF31", "U+1CF32",
              "U+1CF33", "U+1CF34", "U+1CF35", "U+1CF36", "U+1CF37", "U+1CF38", "U+1CF39",
              "U+1CF3A", "U+1CF3B", "U+1CF3C", "U+1CF3D", "U+1CF3E", "U+1CF3F", "U+1CF40",
              "U+1CF41", "U+1CF42", "U+1CF43", "U+1CF44", "U+1CF45", "U+1CF46", "U+1D167",
              "U+1D168", "U+1D169", "U+1D173", "U+1D174", "U+1D175", "U+1D176", "U+1D177",
              "U+1D178", "U+1D179", "U+1D17A", "U+1D17B", "U+1D17C", "U+1D17D", "U+1D17E",
              "U+1D17F", "U+1D180", "U+1D181", "U+1D182", "U+1D185", "U+1D186", "U+1D187",
              "U+1D188", "U+1D189", "U+1D18A", "U+1D18B", "U+1D1AA", "U+1D1AB", "U+1D1AC",
              "U+1D1AD", "U+1D242", "U+1D243", "U+1D244", "U+1DA00", "U+1DA01", "U+1DA02",
              "U+1DA03", "U+1DA04", "U+1DA05", "U+1DA06", "U+1DA07", "U+1DA08", "U+1DA09",
              "U+1DA0A", "U+1DA0B", "U+1DA0C", "U+1DA0D", "U+1DA0E", "U+1DA0F", "U+1DA10",
              "U+1DA11", "U+1DA12", "U+1DA13", "U+1DA14", "U+1DA15", "U+1DA16", "U+1DA17",
              "U+1DA18", "U+1DA19", "U+1DA1A", "U+1DA1B", "U+1DA1C", "U+1DA1D", "U+1DA1E",
              "U+1DA1F", "U+1DA20", "U+1DA21", "U+1DA22", "U+1DA23", "U+1DA24", "U+1DA25",
              "U+1DA26", "U+1DA27", "U+1DA28", "U+1DA29", "U+1DA2A", "U+1DA2B", "U+1DA2C",
              "U+1DA2D", "U+1DA2E", "U+1DA2F", "U+1DA30", "U+1DA31", "U+1DA32", "U+1DA33",
              "U+1DA34", "U+1DA35", "U+1DA36", "U+1DA3B", "U+1DA3C", "U+1DA3D", "U+1DA3E",
              "U+1DA3F", "U+1DA40", "U+1DA41", "U+1DA42", "U+1DA43", "U+1DA44", "U+1DA45",
              "U+1DA46", "U+1DA47", "U+1DA48", "U+1DA49", "U+1DA4A", "U+1DA4B", "U+1DA4C",
              "U+1DA4D", "U+1DA4E", "U+1DA4F", "U+1DA50", "U+1DA51", "U+1DA52", "U+1DA53",
              "U+1DA54", "U+1DA55", "U+1DA56", "U+1DA57", "U+1DA58", "U+1DA59", "U+1DA5A",
              "U+1DA5B", "U+1DA5C", "U+1DA5D", "U+1DA5E", "U+1DA5F", "U+1DA60", "U+1DA61",
              "U+1DA62", "U+1DA63", "U+1DA64", "U+1DA65", "U+1DA66", "U+1DA67", "U+1DA68",
              "U+1DA69", "U+1DA6A", "U+1DA6B", "U+1DA6C", "U+1DA75", "U+1DA84", "U+1DA9B",
              "U+1DA9C", "U+1DA9D", "U+1DA9E", "U+1DA9F", "U+1DAA1", "U+1DAA2", "U+1DAA3",
              "U+1DAA4", "U+1DAA5", "U+1DAA6", "U+1DAA7", "U+1DAA8", "U+1DAA9", "U+1DAAA",
              "U+1DAAB", "U+1DAAC", "U+1DAAD", "U+1DAAE", "U+1DAAF", "U+1E000", "U+1E001",
              "U+1E002", "U+1E003", "U+1E004", "U+1E005", "U+1E006", "U+1E008", "U+1E009",
              "U+1E00A", "U+1E00B", "U+1E00C", "U+1E00D", "U+1E00E", "U+1E00F", "U+1E010",
              "U+1E011", "U+1E012", "U+1E013", "U+1E014", "U+1E015", "U+1E016", "U+1E017",
              "U+1E018", "U+1E01B", "U+1E01C", "U+1E01D", "U+1E01E", "U+1E01F", "U+1E020",
              "U+1E021", "U+1E023", "U+1E024", "U+1E026", "U+1E027", "U+1E028", "U+1E029",
              "U+1E02A", "U+1E030", "U+1E031", "U+1E032", "U+1E033", "U+1E034", "U+1E035",
              "U+1E036", "U+1E037", "U+1E038", "U+1E039", "U+1E03A", "U+1E03B", "U+1E03C",
              "U+1E03D", "U+1E03E", "U+1E03F", "U+1E040", "U+1E041", "U+1E042", "U+1E043",
              "U+1E044", "U+1E045", "U+1E046", "U+1E047", "U+1E048", "U+1E049", "U+1E04A",
              "U+1E04B", "U+1E04C", "U+1E04D", "U+1E04E", "U+1E04F", "U+1E050", "U+1E051",
              "U+1E052", "U+1E053", "U+1E054", "U+1E055", "U+1E056", "U+1E057", "U+1E058",
              "U+1E059", "U+1E05A", "U+1E05B", "U+1E05C", "U+1E05D", "U+1E05E", "U+1E05F",
              "U+1E060", "U+1E061", "U+1E062", "U+1E063", "U+1E064", "U+1E065", "U+1E066",
              "U+1E067", "U+1E068", "U+1E069", "U+1E06A", "U+1E06B", "U+1E06C", "U+1E06D",
              "U+1E08F", "U+1E130", "U+1E131", "U+1E132", "U+1E133", "U+1E134", "U+1E135",
              "U+1E136", "U+1E137", "U+1E138", "U+1E139", "U+1E13A", "U+1E13B", "U+1E13C",
              "U+1E13D", "U+1E2AE", "U+1E2EC", "U+1E2ED", "U+1E2EE", "U+1E2EF", "U+1E4EB",
              "U+1E4EC", "U+1E4ED", "U+1E4EE", "U+1E4EF", "U+1E5EE", "U+1E5EF", "U+1E6E3",
              "U+1E6E6", "U+1E6EE", "U+1E6EF", "U+1E6F5", "U+1E6FF", "U+1E8D0", "U+1E8D1",
              "U+1E8D2", "U+1E8D3", "U+1E8D4", "U+1E8D5", "U+1E8D6", "U+1E944", "U+1E945",
              "U+1E946", "U+1E947", "U+1E948", "U+1E949", "U+1E94A", "U+1E94B", "U+1F3FB",
              "U+1F3FC", "U+1F3FD", "U+1F3FE", "U+1F3FF", "U+E0001", "U+E0020", "U+E0021",
              "U+E0022", "U+E0023", "U+E0024", "U+E0025", "U+E0026", "U+E0027", "U+E0028",
              "U+E0029", "U+E002A", "U+E002B", "U+E002C", "U+E002D", "U+E002E", "U+E002F",
              "U+E0030", "U+E0031", "U+E0032", "U+E0033", "U+E0034", "U+E0035", "U+E0036",
              "U+E0037", "U+E0038", "U+E0039", "U+E003A", "U+E003B", "U+E003C", "U+E003D",
              "U+E003E", "U+E003F", "U+E0040", "U+E0041", "U+E0042", "U+E0043", "U+E0044",
              "U+E0045", "U+E0046", "U+E0047", "U+E0048", "U+E0049", "U+E004A", "U+E004B",
              "U+E004C", "U+E004D", "U+E004E", "U+E004F", "U+E0050", "U+E0051", "U+E0052",
              "U+E0053", "U+E0054", "U+E0055", "U+E0056", "U+E0057", "U+E0058", "U+E0059",
              "U+E005A", "U+E005B", "U+E005C", "U+E005D", "U+E005E", "U+E005F", "U+E0060",
              "U+E0061", "U+E0062", "U+E0063", "U+E0064", "U+E0065", "U+E0066", "U+E0067",
              "U+E0068", "U+E0069", "U+E006A", "U+E006B", "U+E006C", "U+E006D", "U+E006E",
              "U+E006F", "U+E0070", "U+E0071", "U+E0072", "U+E0073", "U+E0074", "U+E0075",
              "U+E0076", "U+E0077", "U+E0078", "U+E0079", "U+E007A", "U+E007B", "U+E007C",
              "U+E007D", "U+E007E", "U+E007F", "U+E0100", "U+E0101", "U+E0102", "U+E0103",
              "U+E0104", "U+E0105", "U+E0106", "U+E0107", "U+E0108", "U+E0109", "U+E010A",
              "U+E010B", "U+E010C", "U+E010D", "U+E010E", "U+E010F", "U+E0110", "U+E0111",
              "U+E0112", "U+E0113", "U+E0114", "U+E0115", "U+E0116", "U+E0117", "U+E0118",
              "U+E0119", "U+E011A", "U+E011B", "U+E011C", "U+E011D", "U+E011E", "U+E011F",
              "U+E0120", "U+E0121", "U+E0122", "U+E0123", "U+E0124", "U+E0125", "U+E0126",
              "U+E0127", "U+E0128", "U+E0129", "U+E012A", "U+E012B", "U+E012C", "U+E012D",
              "U+E012E", "U+E012F", "U+E0130", "U+E0131", "U+E0132", "U+E0133", "U+E0134",
              "U+E0135", "U+E0136", "U+E0137", "U+E0138", "U+E0139", "U+E013A", "U+E013B",
              "U+E013C", "U+E013D", "U+E013E", "U+E013F", "U+E0140", "U+E0141", "U+E0142",
              "U+E0143", "U+E0144", "U+E0145", "U+E0146", "U+E0147", "U+E0148", "U+E0149",
              "U+E014A", "U+E014B", "U+E014C", "U+E014D", "U+E014E", "U+E014F", "U+E0150",
              "U+E0151", "U+E0152", "U+E0153", "U+E0154", "U+E0155", "U+E0156", "U+E0157",
              "U+E0158", "U+E0159", "U+E015A", "U+E015B", "U+E015C", "U+E015D", "U+E015E",
              "U+E015F", "U+E0160", "U+E0161", "U+E0162", "U+E0163", "U+E0164", "U+E0165",
              "U+E0166", "U+E0167", "U+E0168", "U+E0169", "U+E016A", "U+E016B", "U+E016C",
              "U+E016D", "U+E016E", "U+E016F", "U+E0170", "U+E0171", "U+E0172", "U+E0173",
              "U+E0174", "U+E0175", "U+E0176", "U+E0177", "U+E0178", "U+E0179", "U+E017A",
              "U+E017B", "U+E017C", "U+E017D", "U+E017E", "U+E017F", "U+E0180", "U+E0181",
              "U+E0182", "U+E0183", "U+E0184", "U+E0185", "U+E0186", "U+E0187", "U+E0188",
              "U+E0189", "U+E018A", "U+E018B", "U+E018C", "U+E018D", "U+E018E", "U+E018F",
              "U+E0190", "U+E0191", "U+E0192", "U+E0193", "U+E0194", "U+E0195", "U+E0196",
              "U+E0197", "U+E0198", "U+E0199", "U+E019A", "U+E019B", "U+E019C", "U+E019D",
              "U+E019E", "U+E019F", "U+E01A0", "U+E01A1", "U+E01A2", "U+E01A3", "U+E01A4",
              "U+E01A5", "U+E01A6", "U+E01A7", "U+E01A8", "U+E01A9", "U+E01AA", "U+E01AB",
              "U+E01AC", "U+E01AD", "U+E01AE", "U+E01AF", "U+E01B0", "U+E01B1", "U+E01B2",
              "U+E01B3", "U+E01B4", "U+E01B5", "U+E01B6", "U+E01B7", "U+E01B8", "U+E01B9",
              "U+E01BA", "U+E01BB", "U+E01BC", "U+E01BD", "U+E01BE", "U+E01BF", "U+E01C0",
              "U+E01C1", "U+E01C2", "U+E01C3", "U+E01C4", "U+E01C5", "U+E01C6", "U+E01C7",
              "U+E01C8", "U+E01C9", "U+E01CA", "U+E01CB", "U+E01CC", "U+E01CD", "U+E01CE",
              "U+E01CF", "U+E01D0", "U+E01D1", "U+E01D2", "U+E01D3", "U+E01D4", "U+E01D5",
              "U+E01D6", "U+E01D7", "U+E01D8", "U+E01D9", "U+E01DA", "U+E01DB", "U+E01DC",
              "U+E01DD", "U+E01DE", "U+E01DF", "U+E01E0", "U+E01E1", "U+E01E2", "U+E01E3",
              "U+E01E4", "U+E01E5", "U+E01E6", "U+E01E7", "U+E01E8", "U+E01E9", "U+E01EA",
              "U+E01EB", "U+E01EC", "U+E01ED", "U+E01EE", "U+E01EF" },
      highSurrogates |->
            {
              "U+D800", "U+D801", "U+D802", "U+D803", "U+D804", "U+D805", "U+D806", "U+D807",
              "U+D80D", "U+D818", "U+D81A", "U+D81B", "U+D82B", "U+D82F", "U+D833", "U+D834",
              "U+D835", "U+D836", "U+D837", "U+D838", "U+D839", "U+D83A", "U+D83C", "U+DB40" },
      surrogates |->
            <<
              <<"U+D800", "U+DDFD", "U+101FD">>, <<"U+D800", "U+DEE0", "U+102E0">>, <<"U+D800",
              "U+DF76", "U+10376">>, <<"U+D800", "U+DF77", "U+10377">>, <<"U+D800", "U+DF78",
              "U+10378">>, <<"U+D800", "U+DF79", "U+10379">>, <<"U+D800", "U+DF7A", "U+1037A">>,
              <<"U+D801", "U+DC00", "U+10400">>, <<"U+D801", "U+DC01", "U+10401">>, <<"U+D801",
              "U+DC02", "U+10402">>, <<"U+D801", "U+DC03", "U+10403">>, <<"U+D801", "U+DC04",
              "U+10404">>, <<"U+D801", "U+DC05", "U+10405">>, <<"U+D801", "U+DC06", "U+10406">>,
              <<"U+D801", "U+DC07", "U+10407">>, <<"U+D801", "U+DC08", "U+10408">>, <<"U+D801",
              "U+DC09", "U+10409">>, <<"U+D801", "U+DC0A", "U+1040A">>, <<"U+D801", "U+DC0B",
              "U+1040B">>, <<"U+D801", "U+DC0C", "U+1040C">>, <<"U+D801", "U+DC0D", "U+1040D">>,
              <<"U+D801", "U+DC0E", "U+1040E">>, <<"U+D801", "U+DC0F", "U+1040F">>, <<"U+D801",
              "U+DC10", "U+10410">>, <<"U+D801", "U+DC11", "U+10411">>, <<"U+D801", "U+DC12",
              "U+10412">>, <<"U+D801", "U+DC13", "U+10413">>, <<"U+D801", "U+DC14", "U+10414">>,
              <<"U+D801", "U+DC15", "U+10415">>, <<"U+D801", "U+DC16", "U+10416">>, <<"U+D801",
              "U+DC17", "U+10417">>, <<"U+D801", "U+DC18", "U+10418">>, <<"U+D801", "U+DC19",
              "U+10419">>, <<"U+D801", "U+DC1A", "U+1041A">>, <<"U+D801", "U+DC1B", "U+1041B">>,
              <<"U+D801", "U+DC1C", "U+1041C">>, <<"U+D801", "U+DC1D", "U+1041D">>, <<"U+D801",
              "U+DC1E", "U+1041E">>, <<"U+D801", "U+DC1F", "U+1041F">>, <<"U+D801", "U+DC20",
              "U+10420">>, <<"U+D801", "U+DC21", "U+10421">>, <<"U+D801", "U+DC22", "U+10422">>,
              <<"U+D801", "U+DC23", "U+10423">>, <<"U+D801", "U+DC24", "U+10424">>, <<"U+D801",
              "U+DC25", "U+10425">>, <<"U+D801", "U+DC26", "U+10426">>, <<"U+D801", "U+DC27",
              "U+10427">>, <<"U+D801", "U+DC28", "U+10428">>, <<"U+D801", "U+DC29", "U+10429">>,
              <<"U+D801", "U+DC2A", "U+1042A">>, <<"U+D801", "U+DC2B", "U+1042B">>, <<"U+D801",
              "U+DC2C", "U+1042C">>, <<"U+D801", "U+DC2D", "U+1042D">>, <<"U+D801", "U+DC2E",
              "U+1042E">>, <<"U+D801", "U+DC2F", "U+1042F">>, <<"U+D801", "U+DC30", "U+10430">>,
              <<"U+D801", "U+DC31", "U+10431">>, <<"U+D801", "U+DC32", "U+10432">>, <<"U+D801",
              "U+DC33", "U+10433">>, <<"U+D801", "U+DC34", "U+10434">>, <<"U+D801", "U+DC35",
              "U+10435">>, <<"U+D801", "U+DC36", "U+10436">>, <<"U+D801", "U+DC37", "U+10437">>,
              <<"U+D801", "U+DC38", "U+10438">>, <<"U+D801", "U+DC39", "U+10439">>, <<"U+D801",
              "U+DC3A", "U+1043A">>, <<"U+D801", "U+DC3B", "U+1043B">>, <<"U+D801", "U+DC3C",
              "U+1043C">>, <<"U+D801", "U+DC3D", "U+1043D">>, <<"U+D801", "U+DC3E", "U+1043E">>,
              <<"U+D801", "U+DC3F", "U+1043F">>, <<"U+D801", "U+DC40", "U+10440">>, <<"U+D801",
              "U+DC41", "U+10441">>, <<"U+D801", "U+DC42", "U+10442">>, <<"U+D801", "U+DC43",
              "U+10443">>, <<"U+D801", "U+DC44", "U+10444">>, <<"U+D801", "U+DC45", "U+10445">>,
              <<"U+D801", "U+DC46", "U+10446">>, <<"U+D801", "U+DC47", "U+10447">>, <<"U+D801",
              "U+DC48", "U+10448">>, <<"U+D801", "U+DC49", "U+10449">>, <<"U+D801", "U+DC4A",
              "U+1044A">>, <<"U+D801", "U+DC4B", "U+1044B">>, <<"U+D801", "U+DC4C", "U+1044C">>,
              <<"U+D801", "U+DC4D", "U+1044D">>, <<"U+D801", "U+DC4E", "U+1044E">>, <<"U+D801",
              "U+DC4F", "U+1044F">>, <<"U+D801", "U+DCB0", "U+104B0">>, <<"U+D801", "U+DCB1",
              "U+104B1">>, <<"U+D801", "U+DCB2", "U+104B2">>, <<"U+D801", "U+DCB3", "U+104B3">>,
              <<"U+D801", "U+DCB4", "U+104B4">>, <<"U+D801", "U+DCB5", "U+104B5">>, <<"U+D801",
              "U+DCB6", "U+104B6">>, <<"U+D801", "U+DCB7", "U+104B7">>, <<"U+D801", "U+DCB8",
              "U+104B8">>, <<"U+D801", "U+DCB9", "U+104B9">>, <<"U+D801", "U+DCBA", "U+104BA">>,
              <<"U+D801", "U+DCBB", "U+104BB">>, <<"U+D801", "U+DCBC", "U+104BC">>, <<"U+D801",
              "U+DCBD", "U+104BD">>, <<"U+D801", "U+DCBE", "U+104BE">>, <<"U+D801", "U+DCBF",
              "U+104BF">>, <<"U+D801", "U+DCC0", "U+104C0">>, <<"U+D801", "U+DCC1", "U+104C1">>,
              <<"U+D801", "U+DCC2", "U+104C2">>, <<"U+D801", "U+DCC3", "U+104C3">>, <<"U+D801",
              "U+DCC4", "U+104C4">>, <<"U+D801", "U+DCC5", "U+104C5">>, <<"U+D801", "U+DCC6",
              "U+104C6">>, <<"U+D801", "U+DCC7", "U+104C7">>, <<"U+D801", "U+DCC8", "U+104C8">>,
              <<"U+D801", "U+DCC9", "U+104C9">>, <<"U+D801", "U+DCCA", "U+104CA">>, <<"U+D801",
              "U+DCCB", "U+104CB">>, <<"U+D801", "U+DCCC", "U+104CC">>, <<"U+D801", "U+DCCD",
              "U+104CD">>, <<"U+D801", "U+DCCE", "U+104CE">>, <<"U+D801", "U+DCCF", "U+104CF">>,
              <<"U+D801", "U+DCD0", "U+104D0">>, <<"U+D801", "U+DCD1", "U+104D1">>, <<"U+D801",
              "U+DCD2", "U+104D2">>, <<"U+D801", "U+DCD3", "U+104D3">>, <<"U+D801", "U+DCD8",
              "U+104D8">>, <<"U+D801", "U+DCD9", "U+104D9">>, <<"U+D801", "U+DCDA", "U+104DA">>,
              <<"U+D801", "U+DCDB", "U+104DB">>, <<"U+D801", "U+DCDC", "U+104DC">>, <<"U+D801",
              "U+DCDD", "U+104DD">>, <<"U+D801", "U+DCDE", "U+104DE">>, <<"U+D801", "U+DCDF",
              "U+104DF">>, <<"U+D801", "U+DCE0", "U+104E0">>, <<"U+D801", "U+DCE1", "U+104E1">>,
              <<"U+D801", "U+DCE2", "U+104E2">>, <<"U+D801", "U+DCE3", "U+104E3">>, <<"U+D801",
              "U+DCE4", "U+104E4">>, <<"U+D801", "U+DCE5", "U+104E5">>, <<"U+D801", "U+DCE6",
              "U+104E6">>, <<"U+D801", "U+DCE7", "U+104E7">>, <<"U+D801", "U+DCE8", "U+104E8">>,
              <<"U+D801", "U+DCE9", "U+104E9">>, <<"U+D801", "U+DCEA", "U+104EA">>, <<"U+D801",
              "U+DCEB", "U+104EB">>, <<"U+D801", "U+DCEC", "U+104EC">>, <<"U+D801", "U+DCED",
              "U+104ED">>, <<"U+D801", "U+DCEE", "U+104EE">>, <<"U+D801", "U+DCEF", "U+104EF">>,
              <<"U+D801", "U+DCF0", "U+104F0">>, <<"U+D801", "U+DCF1", "U+104F1">>, <<"U+D801",
              "U+DCF2", "U+104F2">>, <<"U+D801", "U+DCF3", "U+104F3">>, <<"U+D801", "U+DCF4",
              "U+104F4">>, <<"U+D801", "U+DCF5", "U+104F5">>, <<"U+D801", "U+DCF6", "U+104F6">>,
              <<"U+D801", "U+DCF7", "U+104F7">>, <<"U+D801", "U+DCF8", "U+104F8">>, <<"U+D801",
              "U+DCF9", "U+104F9">>, <<"U+D801", "U+DCFA", "U+104FA">>, <<"U+D801", "U+DCFB",
              "U+104FB">>, <<"U+D801", "U+DD70", "U+10570">>, <<"U+D801", "U+DD71", "U+10571">>,
              <<"U+D801", "U+DD72", "U+10572">>, <<"U+D801", "U+DD73", "U+10573">>, <<"U+D801",
              "U+DD74", "U+10574">>, <<"U+D801", "U+DD75", "U+10575">>, <<"U+D801", "U+DD76",
              "U+10576">>, <<"U+D801", "U+DD77", "U+10577">>, <<"U+D801", "U+DD78", "U+10578">>,
              <<"U+D801", "U+DD79", "U+10579">>, <<"U+D801", "U+DD7A", "U+1057A">>, <<"U+D801",
              "U+DD7C", "U+1057C">>, <<"U+D801", "U+DD7D", "U+1057D">>, <<"U+D801", "U+DD7E",
              "U+1057E">>, <<"U+D801", "U+DD7F", "U+1057F">>, <<"U+D801", "U+DD80", "U+10580">>,
              <<"U+D801", "U+DD81", "U+10581">>, <<"U+D801", "U+DD82", "U+10582">>, <<"U+D801",
              "U+DD83", "U+10583">>, <<"U+D801", "U+DD84", "U+10584">>, <<"U+D801", "U+DD85",
              "U+10585">>, <<"U+D801", "U+DD86", "U+10586">>, <<"U+D801", "U+DD87", "U+10587">>,
              <<"U+D801", "U+DD88", "U+10588">>, <<"U+D801", "U+DD89", "U+10589">>, <<"U+D801",
              "U+DD8A", "U+1058A">>, <<"U+D801", "U+DD8C", "U+1058C">>, <<"U+D801", "U+DD8D",
              "U+1058D">>, <<"U+D801", "U+DD8E", "U+1058E">>, <<"U+D801", "U+DD8F", "U+1058F">>,
              <<"U+D801", "U+DD90", "U+10590">>, <<"U+D801", "U+DD91", "U+10591">>, <<"U+D801",
              "U+DD92", "U+10592">>, <<"U+D801", "U+DD94", "U+10594">>, <<"U+D801", "U+DD95",
              "U+10595">>, <<"U+D801", "U+DD97", "U+10597">>, <<"U+D801", "U+DD98", "U+10598">>,
              <<"U+D801", "U+DD99", "U+10599">>, <<"U+D801", "U+DD9A", "U+1059A">>, <<"U+D801",
              "U+DD9B", "U+1059B">>, <<"U+D801", "U+DD9C", "U+1059C">>, <<"U+D801", "U+DD9D",
              "U+1059D">>, <<"U+D801", "U+DD9E", "U+1059E">>, <<"U+D801", "U+DD9F", "U+1059F">>,
              <<"U+D801", "U+DDA0", "U+105A0">>, <<"U+D801", "U+DDA1", "U+105A1">>, <<"U+D801",
              "U+DDA3", "U+105A3">>, <<"U+D801", "U+DDA4", "U+105A4">>, <<"U+D801", "U+DDA5",
              "U+105A5">>, <<"U+D801", "U+DDA6", "U+105A6">>, <<"U+D801", "U+DDA7", "U+105A7">>,
              <<"U+D801", "U+DDA8", "U+105A8">>, <<"U+D801", "U+DDA9", "U+105A9">>, <<"U+D801",
              "U+DDAA", "U+105AA">>, <<"U+D801", "U+DDAB", "U+105AB">>, <<"U+D801", "U+DDAC",
              "U+105AC">>, <<"U+D801", "U+DDAD", "U+105AD">>, <<"U+D801", "U+DDAE", "U+105AE">>,
              <<"U+D801", "U+DDAF", "U+105AF">>, <<"U+D801", "U+DDB0", "U+105B0">>, <<"U+D801",
              "U+DDB1", "U+105B1">>, <<"U+D801", "U+DDB3", "U+105B3">>, <<"U+D801", "U+DDB4",
              "U+105B4">>, <<"U+D801", "U+DDB5", "U+105B5">>, <<"U+D801", "U+DDB6", "U+105B6">>,
              <<"U+D801", "U+DDB7", "U+105B7">>, <<"U+D801", "U+DDB8", "U+105B8">>, <<"U+D801",
              "U+DDB9", "U+105B9">>, <<"U+D801", "U+DDBB", "U+105BB">>, <<"U+D801", "U+DDBC",
              "U+105BC">>, <<"U+D801", "U+DF80", "U+10780">>, <<"U+D801", "U+DF81", "U+10781">>,
              <<"U+D801", "U+DF82", "U+10782">>, <<"U+D801", "U+DF83", "U+10783">>, <<"U+D801",
              "U+DF84", "U+10784">>, <<"U+D801", "U+DF85", "U+10785">>, <<"U+D801", "U+DF87",
              "U+10787">>, <<"U+D801", "U+DF88", "U+10788">>, <<"U+D801", "U+DF89", "U+10789">>,
              <<"U+D801", "U+DF8A", "U+1078A">>, <<"U+D801", "U+DF8B", "U+1078B">>, <<"U+D801",
              "U+DF8C", "U+1078C">>, <<"U+D801", "U+DF8D", "U+1078D">>, <<"U+D801", "U+DF8E",
              "U+1078E">>, <<"U+D801", "U+DF8F", "U+1078F">>, <<"U+D801", "U+DF90", "U+10790">>,
              <<"U+D801", "U+DF91", "U+10791">>, <<"U+D801", "U+DF92", "U+10792">>, <<"U+D801",
              "U+DF93", "U+10793">>, <<"U+D801", "U+DF94", "U+10794">>, <<"U+D801", "U+DF95",
              "U+10795">>, <<"U+D801", "U+DF96", "U+10796">>, <<"U+D801", "U+DF97", "U+10797">>,
              <<"U+D801", "U+DF98", "U+10798">>, <<"U+D801", "U+DF99", "U+10799">>, <<"U+D801",
              "U+DF9A", "U+1079A">>, <<"U+D801", "U+DF9B", "U+1079B">>, <<"U+D801", "U+DF9C",
              "U+1079C">>, <<"U+D801", "U+DF9D", "U+1079D">>, <<"U+D801", "U+DF9E", "U+1079E">>,
              <<"U+D801", "U+DF9F", "U+1079F">>, <<"U+D801", "U+DFA0", "U+107A0">>, <<"U+D801",
              "U+DFA1", "U+107A1">>, <<"U+D801", "U+DFA2", "U+107A2">>, <<"U+D801", "U+DFA3",
              "U+107A3">>, <<"U+D801", "U+DFA4", "U+107A4">>, <<"U+D801", "U+DFA5", "U+107A5">>,
              <<"U+D801", "U+DFA6", "U+107A6">>, <<"U+D801", "U+DFA7", "U+107A7">>, <<"U+D801",
              "U+DFA8", "U+107A8">>, <<"U+D801", "U+DFA9", "U+107A9">>, <<"U+D801", "U+DFAA",
              "U+107AA">>, <<"U+D801", "U+DFAB", "U+107AB">>, <<"U+D801", "U+DFAC", "U+107AC">>,
              <<"U+D801", "U+DFAD", "U+107AD">>, <<"U+D801", "U+DFAE", "U+107AE">>, <<"U+D801",
              "U+DFAF", "U+107AF">>, <<"U+D801", "U+DFB0", "U+107B0">>, <<"U+D801", "U+DFB2",
              "U+107B2">>, <<"U+D801", "U+DFB3", "U+107B3">>, <<"U+D801", "U+DFB4", "U+107B4">>,
              <<"U+D801", "U+DFB5", "U+107B5">>, <<"U+D801", "U+DFB6", "U+107B6">>, <<"U+D801",
              "U+DFB7", "U+107B7">>, <<"U+D801", "U+DFB8", "U+107B8">>, <<"U+D801", "U+DFB9",
              "U+107B9">>, <<"U+D801", "U+DFBA", "U+107BA">>, <<"U+D802", "U+DE01", "U+10A01">>,
              <<"U+D802", "U+DE02", "U+10A02">>, <<"U+D802", "U+DE03", "U+10A03">>, <<"U+D802",
              "U+DE05", "U+10A05">>, <<"U+D802", "U+DE06", "U+10A06">>, <<"U+D802", "U+DE0C",
              "U+10A0C">>, <<"U+D802", "U+DE0D", "U+10A0D">>, <<"U+D802", "U+DE0E", "U+10A0E">>,
              <<"U+D802", "U+DE0F", "U+10A0F">>, <<"U+D802", "U+DE38", "U+10A38">>, <<"U+D802",
              "U+DE39", "U+10A39">>, <<"U+D802", "U+DE3A", "U+10A3A">>, <<"U+D802", "U+DE3F",
              "U+10A3F">>, <<"U+D802", "U+DEE5", "U+10AE5">>, <<"U+D802", "U+DEE6", "U+10AE6">>,
              <<"U+D803", "U+DC80", "U+10C80">>, <<"U+D803", "U+DC81", "U+10C81">>, <<"U+D803",
              "U+DC82", "U+10C82">>, <<"U+D803", "U+DC83", "U+10C83">>, <<"U+D803", "U+DC84",
              "U+10C84">>, <<"U+D803", "U+DC85", "U+10C85">>, <<"U+D803", "U+DC86", "U+10C86">>,
              <<"U+D803", "U+DC87", "U+10C87">>, <<"U+D803", "U+DC88", "U+10C88">>, <<"U+D803",
              "U+DC89", "U+10C89">>, <<"U+D803", "U+DC8A", "U+10C8A">>, <<"U+D803", "U+DC8B",
              "U+10C8B">>, <<"U+D803", "U+DC8C", "U+10C8C">>, <<"U+D803", "U+DC8D", "U+10C8D">>,
              <<"U+D803", "U+DC8E", "U+10C8E">>, <<"U+D803", "U+DC8F", "U+10C8F">>, <<"U+D803",
              "U+DC90", "U+10C90">>, <<"U+D803", "U+DC91", "U+10C91">>, <<"U+D803", "U+DC92",
              "U+10C92">>, <<"U+D803", "U+DC93", "U+10C93">>, <<"U+D803", "U+DC94", "U+10C94">>,
              <<"U+D803", "U+DC95", "U+10C95">>, <<"U+D803", "U+DC96", "U+10C96">>, <<"U+D803",
              "U+DC97", "U+10C97">>, <<"U+D803", "U+DC98", "U+10C98">>, <<"U+D803", "U+DC99",
              "U+10C99">>, <<"U+D803", "U+DC9A", "U+10C9A">>, <<"U+D803", "U+DC9B", "U+10C9B">>,
              <<"U+D803", "U+DC9C", "U+10C9C">>, <<"U+D803", "U+DC9D", "U+10C9D">>, <<"U+D803",
              "U+DC9E", "U+10C9E">>, <<"U+D803", "U+DC9F", "U+10C9F">>, <<"U+D803", "U+DCA0",
              "U+10CA0">>, <<"U+D803", "U+DCA1", "U+10CA1">>, <<"U+D803", "U+DCA2", "U+10CA2">>,
              <<"U+D803", "U+DCA3", "U+10CA3">>, <<"U+D803", "U+DCA4", "U+10CA4">>, <<"U+D803",
              "U+DCA5", "U+10CA5">>, <<"U+D803", "U+DCA6", "U+10CA6">>, <<"U+D803", "U+DCA7",
              "U+10CA7">>, <<"U+D803", "U+DCA8", "U+10CA8">>, <<"U+D803", "U+DCA9", "U+10CA9">>,
              <<"U+D803", "U+DCAA", "U+10CAA">>, <<"U+D803", "U+DCAB", "U+10CAB">>, <<"U+D803",
              "U+DCAC", "U+10CAC">>, <<"U+D803", "U+DCAD", "U+10CAD">>, <<"U+D803", "U+DCAE",
              "U+10CAE">>, <<"U+D803", "U+DCAF", "U+10CAF">>, <<"U+D803", "U+DCB0", "U+10CB0">>,
              <<"U+D803", "U+DCB1", "U+10CB1">>, <<"U+D803", "U+DCB2", "U+10CB2">>, <<"U+D803",
              "U+DCC0", "U+10CC0">>, <<"U+D803", "U+DCC1", "U+10CC1">>, <<"U+D803", "U+DCC2",
              "U+10CC2">>, <<"U+D803", "U+DCC3", "U+10CC3">>, <<"U+D803", "U+DCC4", "U+10CC4">>,
              <<"U+D803", "U+DCC5", "U+10CC5">>, <<"U+D803", "U+DCC6", "U+10CC6">>, <<"U+D803",
              "U+DCC7", "U+10CC7">>, <<"U+D803", "U+DCC8", "U+10CC8">>, <<"U+D803", "U+DCC9",
              "U+10CC9">>, <<"U+D803", "U+DCCA", "U+10CCA">>, <<"U+D803", "U+DCCB", "U+10CCB">>,
              <<"U+D803", "U+DCCC", "U+10CCC">>, <<"U+D803", "U+DCCD", "U+10CCD">>, <<"U+D803",
              "U+DCCE", "U+10CCE">>, <<"U+D803", "U+DCCF", "U+10CCF">>, <<"U+D803", "U+DCD0",
              "U+10CD0">>, <<"U+D803", "U+DCD1", "U+10CD1">>, <<"U+D803", "U+DCD2", "U+10CD2">>,
              <<"U+D803", "U+DCD3", "U+10CD3">>, <<"U+D803", "U+DCD4", "U+10CD4">>, <<"U+D803",
              "U+DCD5", "U+10CD5">>, <<"U+D803", "U+DCD6", "U+10CD6">>, <<"U+D803", "U+DCD7",
              "U+10CD7">>, <<"U+D803", "U+DCD8", "U+10CD8">>, <<"U+D803", "U+DCD9", "U+10CD9">>,
              <<"U+D803", "U+DCDA", "U+10CDA">>, <<"U+D803", "U+DCDB", "U+10CDB">>, <<"U+D803",
              "U+DCDC", "U+10CDC">>, <<"U+D803", "U+DCDD", "U+10CDD">>, <<"U+D803", "U+DCDE",
              "U+10CDE">>, <<"U+D803", "U+DCDF", "U+10CDF">>, <<"U+D803", "U+DCE0", "U+10CE0">>,
              <<"U+D803", "U+DCE1", "U+10CE1">>, <<"U+D803", "U+DCE2", "U+10CE2">>, <<"U+D803",
              "U+DCE3", "U+10CE3">>, <<"U+D803", "U+DCE4", "U+10CE4">>, <<"U+D803", "U+DCE5",
              "U+10CE5">>, <<"U+D803", "U+DCE6", "U+10CE6">>, <<"U+D803", "U+DCE7", "U+10CE7">>,
              <<"U+D803", "U+DCE8", "U+10CE8">>, <<"U+D803", "U+DCE9", "U+10CE9">>, <<"U+D803",
              "U+DCEA", "U+10CEA">>, <<"U+D803", "U+DCEB", "U+10CEB">>, <<"U+D803", "U+DCEC",
              "U+10CEC">>, <<"U+D803", "U+DCED", "U+10CED">>, <<"U+D803", "U+DCEE", "U+10CEE">>,
              <<"U+D803", "U+DCEF", "U+10CEF">>, <<"U+D803", "U+DCF0", "U+10CF0">>, <<"U+D803",
              "U+DCF1", "U+10CF1">>, <<"U+D803", "U+DCF2", "U+10CF2">>, <<"U+D803", "U+DD24",
              "U+10D24">>, <<"U+D803", "U+DD25", "U+10D25">>, <<"U+D803", "U+DD26", "U+10D26">>,
              <<"U+D803", "U+DD27", "U+10D27">>, <<"U+D803", "U+DD4E", "U+10D4E">>, <<"U+D803",
              "U+DD50", "U+10D50">>, <<"U+D803", "U+DD51", "U+10D51">>, <<"U+D803", "U+DD52",
              "U+10D52">>, <<"U+D803", "U+DD53", "U+10D53">>, <<"U+D803", "U+DD54", "U+10D54">>,
              <<"U+D803", "U+DD55", "U+10D55">>, <<"U+D803", "U+DD56", "U+10D56">>, <<"U+D803",
              "U+DD57", "U+10D57">>, <<"U+D803", "U+DD58", "U+10D58">>, <<"U+D803", "U+DD59",
              "U+10D59">>, <<"U+D803", "U+DD5A", "U+10D5A">>, <<"U+D803", "U+DD5B", "U+10D5B">>,
              <<"U+D803", "U+DD5C", "U+10D5C">>, <<"U+D803", "U+DD5D", "U+10D5D">>, <<"U+D803",
              "U+DD5E", "U+10D5E">>, <<"U+D803", "U+DD5F", "U+10D5F">>, <<"U+D803", "U+DD60",
              "U+10D60">>, <<"U+D803", "U+DD61", "U+10D61">>, <<"U+D803", "U+DD62", "U+10D62">>,
              <<"U+D803", "U+DD63", "U+10D63">>, <<"U+D803", "U+DD64", "U+10D64">>, <<"U+D803",
              "U+DD65", "U+10D65">>, <<"U+D803", "U+DD69", "U+10D69">>, <<"U+D803", "U+DD6A",
              "U+10D6A">>, <<"U+D803", "U+DD6B", "U+10D6B">>, <<"U+D803", "U+DD6C", "U+10D6C">>,
              <<"U+D803", "U+DD6D", "U+10D6D">>, <<"U+D803", "U+DD6F", "U+10D6F">>, <<"U+D803",
              "U+DD70", "U+10D70">>, <<"U+D803", "U+DD71", "U+10D71">>, <<"U+D803", "U+DD72",
              "U+10D72">>, <<"U+D803", "U+DD73", "U+10D73">>, <<"U+D803", "U+DD74", "U+10D74">>,
              <<"U+D803", "U+DD75", "U+10D75">>, <<"U+D803", "U+DD76", "U+10D76">>, <<"U+D803",
              "U+DD77", "U+10D77">>, <<"U+D803", "U+DD78", "U+10D78">>, <<"U+D803", "U+DD79",
              "U+10D79">>, <<"U+D803", "U+DD7A", "U+10D7A">>, <<"U+D803", "U+DD7B", "U+10D7B">>,
              <<"U+D803", "U+DD7C", "U+10D7C">>, <<"U+D803", "U+DD7D", "U+10D7D">>, <<"U+D803",
              "U+DD7E", "U+10D7E">>, <<"U+D803", "U+DD7F", "U+10D7F">>, <<"U+D803", "U+DD80",
              "U+10D80">>, <<"U+D803", "U+DD81", "U+10D81">>, <<"U+D803", "U+DD82", "U+10D82">>,
              <<"U+D803", "U+DD83", "U+10D83">>, <<"U+D803", "U+DD84", "U+10D84">>, <<"U+D803",
              "U+DD85", "U+10D85">>, <<"U+D803", "U+DEAB", "U+10EAB">>, <<"U+D803", "U+DEAC",
              "U+10EAC">>, <<"U+D803", "U+DEC5", "U+10EC5">>, <<"U+D803", "U+DEFA", "U+10EFA">>,
              <<"U+D803", "U+DEFB", "U+10EFB">>, <<"U+D803", "U+DEFC", "U+10EFC">>, <<"U+D803",
              "U+DEFD", "U+10EFD">>, <<"U+D803", "U+DEFE", "U+10EFE">>, <<"U+D803", "U+DEFF",
              "U+10EFF">>, <<"U+D803", "U+DF46", "U+10F46">>, <<"U+D803", "U+DF47", "U+10F47">>,
              <<"U+D803", "U+DF48", "U+10F48">>, <<"U+D803", "U+DF49", "U+10F49">>, <<"U+D803",
              "U+DF4A", "U+10F4A">>, <<"U+D803", "U+DF4B", "U+10F4B">>, <<"U+D803", "U+DF4C",
              "U+10F4C">>, <<"U+D803", "U+DF4D", "U+10F4D">>, <<"U+D803", "U+DF4E", "U+10F4E">>,
              <<"U+D803", "U+DF4F", "U+10F4F">>, <<"U+D803", "U+DF50", "U+10F50">>, <<"U+D803",
              "U+DF82", "U+10F82">>, <<"U+D803", "U+DF83", "U+10F83">>, <<"U+D803", "U+DF84",
              "U+10F84">>, <<"U+D803", "U+DF85", "U+10F85">>, <<"U+D804", "U+DC01", "U+11001">>,
              <<"U+D804", "U+DC38", "U+11038">>, <<"U+D804", "U+DC39", "U+11039">>, <<"U+D804",
              "U+DC3A", "U+1103A">>, <<"U+D804", "U+DC3B", "U+1103B">>, <<"U+D804", "U+DC3C",
              "U+1103C">>, <<"U+D804", "U+DC3D", "U+1103D">>, <<"U+D804", "U+DC3E", "U+1103E">>,
              <<"U+D804", "U+DC3F", "U+1103F">>, <<"U+D804", "U+DC40", "U+11040">>, <<"U+D804",
              "U+DC41", "U+11041">>, <<"U+D804", "U+DC42", "U+11042">>, <<"U+D804", "U+DC43",
              "U+11043">>, <<"U+D804", "U+DC44", "U+11044">>, <<"U+D804", "U+DC45", "U+11045">>,
              <<"U+D804", "U+DC46", "U+11046">>, <<"U+D804", "U+DC70", "U+11070">>, <<"U+D804",
              "U+DC73", "U+11073">>, <<"U+D804", "U+DC74", "U+11074">>, <<"U+D804", "U+DC7F",
              "U+1107F">>, <<"U+D804", "U+DC80", "U+11080">>, <<"U+D804", "U+DC81", "U+11081">>,
              <<"U+D804", "U+DCB3", "U+110B3">>, <<"U+D804", "U+DCB4", "U+110B4">>, <<"U+D804",
              "U+DCB5", "U+110B5">>, <<"U+D804", "U+DCB6", "U+110B6">>, <<"U+D804", "U+DCB9",
              "U+110B9">>, <<"U+D804", "U+DCBA", "U+110BA">>, <<"U+D804", "U+DCBD", "U+110BD">>,
              <<"U+D804", "U+DCC2", "U+110C2">>, <<"U+D804", "U+DCCD", "U+110CD">>, <<"U+D804",
              "U+DD00", "U+11100">>, <<"U+D804", "U+DD01", "U+11101">>, <<"U+D804", "U+DD02",
              "U+11102">>, <<"U+D804", "U+DD27", "U+11127">>, <<"U+D804", "U+DD28", "U+11128">>,
              <<"U+D804", "U+DD29", "U+11129">>, <<"U+D804", "U+DD2A", "U+1112A">>, <<"U+D804",
              "U+DD2B", "U+1112B">>, <<"U+D804", "U+DD2D", "U+1112D">>, <<"U+D804", "U+DD2E",
              "U+1112E">>, <<"U+D804", "U+DD2F", "U+1112F">>, <<"U+D804", "U+DD30", "U+11130">>,
              <<"U+D804", "U+DD31", "U+11131">>, <<"U+D804", "U+DD32", "U+11132">>, <<"U+D804",
              "U+DD33", "U+11133">>, <<"U+D804", "U+DD34", "U+11134">>, <<"U+D804", "U+DD73",
              "U+11173">>, <<"U+D804", "U+DD80", "U+11180">>, <<"U+D804", "U+DD81", "U+11181">>,
              <<"U+D804", "U+DDB6", "U+111B6">>, <<"U+D804", "U+DDB7", "U+111B7">>, <<"U+D804",
              "U+DDB8", "U+111B8">>, <<"U+D804", "U+DDB9", "U+111B9">>, <<"U+D804", "U+DDBA",
              "U+111BA">>, <<"U+D804", "U+DDBB", "U+111BB">>, <<"U+D804", "U+DDBC", "U+111BC">>,
              <<"U+D804", "U+DDBD", "U+111BD">>, <<"U+D804", "U+DDBE", "U+111BE">>, <<"U+D804",
              "U+DDC9", "U+111C9">>, <<"U+D804", "U+DDCA", "U+111CA">>, <<"U+D804", "U+DDCB",
              "U+111CB">>, <<"U+D804", "U+DDCC", "U+111CC">>, <<"U+D804", "U+DDCF", "U+111CF">>,
              <<"U+D804", "U+DE2F", "U+1122F">>, <<"U+D804", "U+DE30", "U+11230">>, <<"U+D804",
              "U+DE31", "U+11231">>, <<"U+D804", "U+DE34", "U+11234">>, <<"U+D804", "U+DE36",
              "U+11236">>, <<"U+D804", "U+DE37", "U+11237">>, <<"U+D804", "U+DE3E", "U+1123E">>,
              <<"U+D804", "U+DE41", "U+11241">>, <<"U+D804", "U+DEDF", "U+112DF">>, <<"U+D804",
              "U+DEE3", "U+112E3">>, <<"U+D804", "U+DEE4", "U+112E4">>, <<"U+D804", "U+DEE5",
              "U+112E5">>, <<"U+D804", "U+DEE6", "U+112E6">>, <<"U+D804", "U+DEE7", "U+112E7">>,
              <<"U+D804", "U+DEE8", "U+112E8">>, <<"U+D804", "U+DEE9", "U+112E9">>, <<"U+D804",
              "U+DEEA", "U+112EA">>, <<"U+D804", "U+DF00", "U+11300">>, <<"U+D804", "U+DF01",
              "U+11301">>, <<"U+D804", "U+DF3B", "U+1133B">>, <<"U+D804", "U+DF3C", "U+1133C">>,
              <<"U+D804", "U+DF40", "U+11340">>, <<"U+D804", "U+DF66", "U+11366">>, <<"U+D804",
              "U+DF67", "U+11367">>, <<"U+D804", "U+DF68", "U+11368">>, <<"U+D804", "U+DF69",
              "U+11369">>, <<"U+D804", "U+DF6A", "U+1136A">>, <<"U+D804", "U+DF6B", "U+1136B">>,
              <<"U+D804", "U+DF6C", "U+1136C">>, <<"U+D804", "U+DF70", "U+11370">>, <<"U+D804",
              "U+DF71", "U+11371">>, <<"U+D804", "U+DF72", "U+11372">>, <<"U+D804", "U+DF73",
              "U+11373">>, <<"U+D804", "U+DF74", "U+11374">>, <<"U+D804", "U+DFBB", "U+113BB">>,
              <<"U+D804", "U+DFBC", "U+113BC">>, <<"U+D804", "U+DFBD", "U+113BD">>, <<"U+D804",
              "U+DFBE", "U+113BE">>, <<"U+D804", "U+DFBF", "U+113BF">>, <<"U+D804", "U+DFC0",
              "U+113C0">>, <<"U+D804", "U+DFCE", "U+113CE">>, <<"U+D804", "U+DFD0", "U+113D0">>,
              <<"U+D804", "U+DFD2", "U+113D2">>, <<"U+D804", "U+DFE1", "U+113E1">>, <<"U+D804",
              "U+DFE2", "U+113E2">>, <<"U+D805", "U+DC38", "U+11438">>, <<"U+D805", "U+DC39",
              "U+11439">>, <<"U+D805", "U+DC3A", "U+1143A">>, <<"U+D805", "U+DC3B", "U+1143B">>,
              <<"U+D805", "U+DC3C", "U+1143C">>, <<"U+D805", "U+DC3D", "U+1143D">>, <<"U+D805",
              "U+DC3E", "U+1143E">>, <<"U+D805", "U+DC3F", "U+1143F">>, <<"U+D805", "U+DC42",
              "U+11442">>, <<"U+D805", "U+DC43", "U+11443">>, <<"U+D805", "U+DC44", "U+11444">>,
              <<"U+D805", "U+DC46", "U+11446">>, <<"U+D805", "U+DC5E", "U+1145E">>, <<"U+D805",
              "U+DCB3", "U+114B3">>, <<"U+D805", "U+DCB4", "U+114B4">>, <<"U+D805", "U+DCB5",
              "U+114B5">>, <<"U+D805", "U+DCB6", "U+114B6">>, <<"U+D805", "U+DCB7", "U+114B7">>,
              <<"U+D805", "U+DCB8", "U+114B8">>, <<"U+D805", "U+DCBA", "U+114BA">>, <<"U+D805",
              "U+DCBF", "U+114BF">>, <<"U+D805", "U+DCC0", "U+114C0">>, <<"U+D805", "U+DCC2",
              "U+114C2">>, <<"U+D805", "U+DCC3", "U+114C3">>, <<"U+D805", "U+DDB2", "U+115B2">>,
              <<"U+D805", "U+DDB3", "U+115B3">>, <<"U+D805", "U+DDB4", "U+115B4">>, <<"U+D805",
              "U+DDB5", "U+115B5">>, <<"U+D805", "U+DDBC", "U+115BC">>, <<"U+D805", "U+DDBD",
              "U+115BD">>, <<"U+D805", "U+DDBF", "U+115BF">>, <<"U+D805", "U+DDC0", "U+115C0">>,
              <<"U+D805", "U+DDDC", "U+115DC">>, <<"U+D805", "U+DDDD", "U+115DD">>, <<"U+D805",
              "U+DE33", "U+11633">>, <<"U+D805", "U+DE34", "U+11634">>, <<"U+D805", "U+DE35",
              "U+11635">>, <<"U+D805", "U+DE36", "U+11636">>, <<"U+D805", "U+DE37", "U+11637">>,
              <<"U+D805", "U+DE38", "U+11638">>, <<"U+D805", "U+DE39", "U+11639">>, <<"U+D805",
              "U+DE3A", "U+1163A">>, <<"U+D805", "U+DE3D", "U+1163D">>, <<"U+D805", "U+DE3F",
              "U+1163F">>, <<"U+D805", "U+DE40", "U+11640">>, <<"U+D805", "U+DEAB", "U+116AB">>,
              <<"U+D805", "U+DEAD", "U+116AD">>, <<"U+D805", "U+DEB0", "U+116B0">>, <<"U+D805",
              "U+DEB1", "U+116B1">>, <<"U+D805", "U+DEB2", "U+116B2">>, <<"U+D805", "U+DEB3",
              "U+116B3">>, <<"U+D805", "U+DEB4", "U+116B4">>, <<"U+D805", "U+DEB5", "U+116B5">>,
              <<"U+D805", "U+DEB7", "U+116B7">>, <<"U+D805", "U+DF1D", "U+1171D">>, <<"U+D805",
              "U+DF1F", "U+1171F">>, <<"U+D805", "U+DF22", "U+11722">>, <<"U+D805", "U+DF23",
              "U+11723">>, <<"U+D805", "U+DF24", "U+11724">>, <<"U+D805", "U+DF25", "U+11725">>,
              <<"U+D805", "U+DF27", "U+11727">>, <<"U+D805", "U+DF28", "U+11728">>, <<"U+D805",
              "U+DF29", "U+11729">>, <<"U+D805", "U+DF2A", "U+1172A">>, <<"U+D805", "U+DF2B",
              "U+1172B">>, <<"U+D806", "U+DC2F", "U+1182F">>, <<"U+D806", "U+DC30", "U+11830">>,
              <<"U+D806", "U+DC31", "U+11831">>, <<"U+D806", "U+DC32", "U+11832">>, <<"U+D806",
              "U+DC33", "U+11833">>, <<"U+D806", "U+DC34", "U+11834">>, <<"U+D806", "U+DC35",
              "U+11835">>, <<"U+D806", "U+DC36", "U+11836">>, <<"U+D806", "U+DC37", "U+11837">>,
              <<"U+D806", "U+DC39", "U+11839">>, <<"U+D806", "U+DC3A", "U+1183A">>, <<"U+D806",
              "U+DCA0", "U+118A0">>, <<"U+D806", "U+DCA1", "U+118A1">>, <<"U+D806", "U+DCA2",
              "U+118A2">>, <<"U+D806", "U+DCA3", "U+118A3">>, <<"U+D806", "U+DCA4", "U+118A4">>,
              <<"U+D806", "U+DCA5", "U+118A5">>, <<"U+D806", "U+DCA6", "U+118A6">>, <<"U+D806",
              "U+DCA7", "U+118A7">>, <<"U+D806", "U+DCA8", "U+118A8">>, <<"U+D806", "U+DCA9",
              "U+118A9">>, <<"U+D806", "U+DCAA", "U+118AA">>, <<"U+D806", "U+DCAB", "U+118AB">>,
              <<"U+D806", "U+DCAC", "U+118AC">>, <<"U+D806", "U+DCAD", "U+118AD">>, <<"U+D806",
              "U+DCAE", "U+118AE">>, <<"U+D806", "U+DCAF", "U+118AF">>, <<"U+D806", "U+DCB0",
              "U+118B0">>, <<"U+D806", "U+DCB1", "U+118B1">>, <<"U+D806", "U+DCB2", "U+118B2">>,
              <<"U+D806", "U+DCB3", "U+118B3">>, <<"U+D806", "U+DCB4", "U+118B4">>, <<"U+D806",
              "U+DCB5", "U+118B5">>, <<"U+D806", "U+DCB6", "U+118B6">>, <<"U+D806", "U+DCB7",
              "U+118B7">>, <<"U+D806", "U+DCB8", "U+118B8">>, <<"U+D806", "U+DCB9", "U+118B9">>,
              <<"U+D806", "U+DCBA", "U+118BA">>, <<"U+D806", "U+DCBB", "U+118BB">>, <<"U+D806",
              "U+DCBC", "U+118BC">>, <<"U+D806", "U+DCBD", "U+118BD">>, <<"U+D806", "U+DCBE",
              "U+118BE">>, <<"U+D806", "U+DCBF", "U+118BF">>, <<"U+D806", "U+DCC0", "U+118C0">>,
              <<"U+D806", "U+DCC1", "U+118C1">>, <<"U+D806", "U+DCC2", "U+118C2">>, <<"U+D806",
              "U+DCC3", "U+118C3">>, <<"U+D806", "U+DCC4", "U+118C4">>, <<"U+D806", "U+DCC5",
              "U+118C5">>, <<"U+D806", "U+DCC6", "U+118C6">>, <<"U+D806", "U+DCC7", "U+118C7">>,
              <<"U+D806", "U+DCC8", "U+118C8">>, <<"U+D806", "U+DCC9", "U+118C9">>, <<"U+D806",
              "U+DCCA", "U+118CA">>, <<"U+D806", "U+DCCB", "U+118CB">>, <<"U+D806", "U+DCCC",
              "U+118CC">>, <<"U+D806", "U+DCCD", "U+118CD">>, <<"U+D806", "U+DCCE", "U+118CE">>,
              <<"U+D806", "U+DCCF", "U+118CF">>, <<"U+D806", "U+DCD0", "U+118D0">>, <<"U+D806",
              "U+DCD1", "U+118D1">>, <<"U+D806", "U+DCD2", "U+118D2">>, <<"U+D806", "U+DCD3",
              "U+118D3">>, <<"U+D806", "U+DCD4", "U+118D4">>, <<"U+D806", "U+DCD5", "U+118D5">>,
              <<"U+D806", "U+DCD6", "U+118D6">>, <<"U+D806", "U+DCD7", "U+118D7">>, <<"U+D806",
              "U+DCD8", "U+118D8">>, <<"U+D806", "U+DCD9", "U+118D9">>, <<"U+D806", "U+DCDA",
              "U+118DA">>, <<"U+D806", "U+DCDB", "U+118DB">>, <<"U+D806", "U+DCDC", "U+118DC">>,
              <<"U+D806", "U+DCDD", "U+118DD">>, <<"U+D806", "U+DCDE", "U+118DE">>, <<"U+D806",
              "U+DCDF", "U+118DF">>, <<"U+D806", "U+DD3B", "U+1193B">>, <<"U+D806", "U+DD3C",
              "U+1193C">>, <<"U+D806", "U+DD3E", "U+1193E">>, <<"U+D806", "U+DD43", "U+11943">>,
              <<"U+D806", "U+DDD4", "U+119D4">>, <<"U+D806", "U+DDD5", "U+119D5">>, <<"U+D806",
              "U+DDD6", "U+119D6">>, <<"U+D806", "U+DDD7", "U+119D7">>, <<"U+D806", "U+DDDA",
              "U+119DA">>, <<"U+D806", "U+DDDB", "U+119DB">>, <<"U+D806", "U+DDE0", "U+119E0">>,
              <<"U+D806", "U+DE01", "U+11A01">>, <<"U+D806", "U+DE02", "U+11A02">>, <<"U+D806",
              "U+DE03", "U+11A03">>, <<"U+D806", "U+DE04", "U+11A04">>, <<"U+D806", "U+DE05",
              "U+11A05">>, <<"U+D806", "U+DE06", "U+11A06">>, <<"U+D806", "U+DE07", "U+11A07">>,
              <<"U+D806", "U+DE08", "U+11A08">>, <<"U+D806", "U+DE09", "U+11A09">>, <<"U+D806",
              "U+DE0A", "U+11A0A">>, <<"U+D806", "U+DE33", "U+11A33">>, <<"U+D806", "U+DE34",
              "U+11A34">>, <<"U+D806", "U+DE35", "U+11A35">>, <<"U+D806", "U+DE36", "U+11A36">>,
              <<"U+D806", "U+DE37", "U+11A37">>, <<"U+D806", "U+DE38", "U+11A38">>, <<"U+D806",
              "U+DE3B", "U+11A3B">>, <<"U+D806", "U+DE3C", "U+11A3C">>, <<"U+D806", "U+DE3D",
              "U+11A3D">>, <<"U+D806", "U+DE3E", "U+11A3E">>, <<"U+D806", "U+DE47", "U+11A47">>,
              <<"U+D806", "U+DE51", "U+11A51">>, <<"U+D806", "U+DE52", "U+11A52">>, <<"U+D806",
              "U+DE53", "U+11A53">>, <<"U+D806", "U+DE54", "U+11A54">>, <<"U+D806", "U+DE55",
              "U+11A55">>, <<"U+D806", "U+DE56", "U+11A56">>, <<"U+D806", "U+DE59", "U+11A59">>,
              <<"U+D806", "U+DE5A", "U+11A5A">>, <<"U+D806", "U+DE5B", "U+11A5B">>, <<"U+D806",
              "U+DE8A", "U+11A8A">>, <<"U+D806", "U+DE8B", "U+11A8B">>, <<"U+D806", "U+DE8C",
              "U+11A8C">>, <<"U+D806", "U+DE8D", "U+11A8D">>, <<"U+D806", "U+DE8E", "U+11A8E">>,
              <<"U+D806", "U+DE8F", "U+11A8F">>, <<"U+D806", "U+DE90", "U+11A90">>, <<"U+D806",
              "U+DE91", "U+11A91">>, <<"U+D806", "U+DE92", "U+11A92">>, <<"U+D806", "U+DE93",
              "U+11A93">>, <<"U+D806", "U+DE94", "U+11A94">>, <<"U+D806", "U+DE95", "U+11A95">>,
              <<"U+D806", "U+DE96", "U+11A96">>, <<"U+D806", "U+DE98", "U+11A98">>, <<"U+D806",
              "U+DE99", "U+11A99">>, <<"U+D806", "U+DF60", "U+11B60">>, <<"U+D806", "U+DF62",
              "U+11B62">>, <<"U+D806", "U+DF63", "U+11B63">>, <<"U+D806", "U+DF64", "U+11B64">>,
              <<"U+D806", "U+DF66", "U+11B66">>, <<"U+D807", "U+DC30", "U+11C30">>, <<"U+D807",
              "U+DC31", "U+11C31">>, <<"U+D807", "U+DC32", "U+11C32">>, <<"U+D807", "U+DC33",
              "U+11C33">>, <<"U+D807", "U+DC34", "U+11C34">>, <<"U+D807", "U+DC35", "U+11C35">>,
              <<"U+D807", "U+DC36", "U+11C36">>, <<"U+D807", "U+DC38", "U+11C38">>, <<"U+D807",
              "U+DC39", "U+11C39">>, <<"U+D807", "U+DC3A", "U+11C3A">>, <<"U+D807", "U+DC3B",
              "U+11C3B">>, <<"U+D807", "U+DC3C", "U+11C3C">>, <<"U+D807", "U+DC3D", "U+11C3D">>,
              <<"U+D807", "U+DC3F", "U+11C3F">>, <<"U+D807", "U+DC92", "U+11C92">>, <<"U+D807",
              "U+DC93", "U+11C93">>, <<"U+D807", "U+DC94", "U+11C94">>, <<"U+D807", "U+DC95",
              "U+11C95">>, <<"U+D807", "U+DC96", "U+11C96">>, <<"U+D807", "U+DC97", "U+11C97">>,
              <<"U+D807", "U+DC98", "U+11C98">>, <<"U+D807", "U+DC99", "U+11C99">>, <<"U+D807",
              "U+DC9A", "U+11C9A">>, <<"U+D807", "U+DC9B", "U+11C9B">>, <<"U+D807", "U+DC9C",
              "U+11C9C">>, <<"U+D807", "U+DC9D", "U+11C9D">>, <<"U+D807", "U+DC9E", "U+11C9E">>,
              <<"U+D807", "U+DC9F", "U+11C9F">>, <<"U+D807", "U+DCA0", "U+11CA0">>, <<"U+D807",
              "U+DCA1", "U+11CA1">>, <<"U+D807", "U+DCA2", "U+11CA2">>, <<"U+D807", "U+DCA3",
              "U+11CA3">>, <<"U+D807", "U+DCA4", "U+11CA4">>, <<"U+D807", "U+DCA5", "U+11CA5">>,
              <<"U+D807", "U+DCA6", "U+11CA6">>, <<"U+D807", "U+DCA7", "U+11CA7">>, <<"U+D807",
              "U+DCAA", "U+11CAA">>, <<"U+D807", "U+DCAB", "U+11CAB">>, <<"U+D807", "U+DCAC",
              "U+11CAC">>, <<"U+D807", "U+DCAD", "U+11CAD">>, <<"U+D807", "U+DCAE", "U+11CAE">>,
              <<"U+D807", "U+DCAF", "U+11CAF">>, <<"U+D807", "U+DCB0", "U+11CB0">>, <<"U+D807",
              "U+DCB2", "U+11CB2">>, <<"U+D807", "U+DCB3", "U+11CB3">>, <<"U+D807", "U+DCB5",
              "U+11CB5">>, <<"U+D807", "U+DCB6", "U+11CB6">>, <<"U+D807", "U+DD31", "U+11D31">>,
              <<"U+D807", "U+DD32", "U+11D32">>, <<"U+D807", "U+DD33", "U+11D33">>, <<"U+D807",
              "U+DD34", "U+11D34">>, <<"U+D807", "U+DD35", "U+11D35">>, <<"U+D807", "U+DD36",
              "U+11D36">>, <<"U+D807", "U+DD3A", "U+11D3A">>, <<"U+D807", "U+DD3C", "U+11D3C">>,
              <<"U+D807", "U+DD3D", "U+11D3D">>, <<"U+D807", "U+DD3F", "U+11D3F">>, <<"U+D807",
              "U+DD40", "U+11D40">>, <<"U+D807", "U+DD41", "U+11D41">>, <<"U+D807", "U+DD42",
              "U+11D42">>, <<"U+D807", "U+DD43", "U+11D43">>, <<"U+D807", "U+DD44", "U+11D44">>,
              <<"U+D807", "U+DD45", "U+11D45">>, <<"U+D807", "U+DD47", "U+11D47">>, <<"U+D807",
              "U+DD90", "U+11D90">>, <<"U+D807", "U+DD91", "U+11D91">>, <<"U+D807", "U+DD95",
              "U+11D95">>, <<"U+D807", "U+DD97", "U+11D97">>, <<"U+D807", "U+DDD9", "U+11DD9">>,
              <<"U+D807", "U+DEF3", "U+11EF3">>, <<"U+D807", "U+DEF4", "U+11EF4">>, <<"U+D807",
              "U+DF00", "U+11F00">>, <<"U+D807", "U+DF01", "U+11F01">>, <<"U+D807", "U+DF36",
              "U+11F36">>, <<"U+D807", "U+DF37", "U+11F37">>, <<"U+D807", "U+DF38", "U+11F38">>,
              <<"U+D807", "U+DF39", "U+11F39">>, <<"U+D807", "U+DF3A", "U+11F3A">>, <<"U+D807",
              "U+DF40", "U+11F40">>, <<"U+D807", "U+DF42", "U+11F42">>, <<"U+D807", "U+DF5A",
              "U+11F5A">>, <<"U+D80D", "U+DC30", "U+13430">>, <<"U+D80D", "U+DC31", "U+13431">>,
              <<"U+D80D", "U+DC32", "U+13432">>, <<"U+D80D", "U+DC33", "U+13433">>, <<"U+D80D",
              "U+DC34", "U+13434">>, <<"U+D80D", "U+DC35", "U+13435">>, <<"U+D80D", "U+DC36",
              "U+13436">>, <<"U+D80D", "U+DC37", "U+13437">>, <<"U+D80D", "U+DC38", "U+13438">>,
              <<"U+D80D", "U+DC39", "U+13439">>, <<"U+D80D", "U+DC3A", "U+1343A">>, <<"U+D80D",
              "U+DC3B", "U+1343B">>, <<"U+D80D", "U+DC3C", "U+1343C">>, <<"U+D80D", "U+DC3D",
              "U+1343D">>, <<"U+D80D", "U+DC3E", "U+1343E">>, <<"U+D80D", "U+DC3F", "U+1343F">>,
              <<"U+D80D", "U+DC40", "U+13440">>, <<"U+D80D", "U+DC47", "U+13447">>, <<"U+D80D",
              "U+DC48", "U+13448">>, <<"U+D80D", "U+DC49", "U+13449">>, <<"U+D80D", "U+DC4A",
              "U+1344A">>, <<"U+D80D", "U+DC4B", "U+1344B">>, <<"U+D80D", "U+DC4C", "U+1344C">>,
              <<"U+D80D", "U+DC4D", "U+1344D">>, <<"U+D80D", "U+DC4E", "U+1344E">>, <<"U+D80D",
              "U+DC4F", "U+1344F">>, <<"U+D80D", "U+DC50", "U+13450">>, <<"U+D80D", "U+DC51",
              "U+13451">>, <<"U+D80D", "U+DC52", "U+13452">>, <<"U+D80D", "U+DC53", "U+13453">>,
              <<"U+D80D", "U+DC54", "U+13454">>, <<"U+D80D", "U+DC55", "U+13455">>, <<"U+D818",
              "U+DD1E", "U+1611E">>, <<"U+D818", "U+DD1F", "U+1611F">>, <<"U+D818", "U+DD20",
              "U+16120">>, <<"U+D818", "U+DD21", "U+16121">>, <<"U+D818", "U+DD22", "U+16122">>,
              <<"U+D818", "U+DD23", "U+16123">>, <<"U+D818", "U+DD24", "U+16124">>, <<"U+D818",
              "U+DD25", "U+16125">>, <<"U+D818", "U+DD26", "U+16126">>, <<"U+D818", "U+DD27",
              "U+16127">>, <<"U+D818", "U+DD28", "U+16128">>, <<"U+D818", "U+DD29", "U+16129">>,
              <<"U+D818", "U+DD2D", "U+1612D">>, <<"U+D818", "U+DD2E", "U+1612E">>, <<"U+D818",
              "U+DD2F", "U+1612F">>, <<"U+D81A", "U+DEF0", "U+16AF0">>, <<"U+D81A", "U+DEF1",
              "U+16AF1">>, <<"U+D81A", "U+DEF2", "U+16AF2">>, <<"U+D81A", "U+DEF3", "U+16AF3">>,
              <<"U+D81A", "U+DEF4", "U+16AF4">>, <<"U+D81A", "U+DF30", "U+16B30">>, <<"U+D81A",
              "U+DF31", "U+16B31">>, <<"U+D81A", "U+DF32", "U+16B32">>, <<"U+D81A", "U+DF33",
              "U+16B33">>, <<"U+D81A", "U+DF34", "U+16B34">>, <<"U+D81A", "U+DF35", "U+16B35">>,
              <<"U+D81A", "U+DF36", "U+16B36">>, <<"U+D81A", "U+DF40", "U+16B40">>, <<"U+D81A",
              "U+DF41", "U+16B41">>, <<"U+D81A", "U+DF42", "U+16B42">>, <<"U+D81A", "U+DF43",
              "U+16B43">>, <<"U+D81B", "U+DD40", "U+16D40">>, <<"U+D81B", "U+DD41", "U+16D41">>,
              <<"U+D81B", "U+DD42", "U+16D42">>, <<"U+D81B", "U+DD6B", "U+16D6B">>, <<"U+D81B",
              "U+DD6C", "U+16D6C">>, <<"U+D81B", "U+DE40", "U+16E40">>, <<"U+D81B", "U+DE41",
              "U+16E41">>, <<"U+D81B", "U+DE42", "U+16E42">>, <<"U+D81B", "U+DE43", "U+16E43">>,
              <<"U+D81B", "U+DE44", "U+16E44">>, <<"U+D81B", "U+DE45", "U+16E45">>, <<"U+D81B",
              "U+DE46", "U+16E46">>, <<"U+D81B", "U+DE47", "U+16E47">>, <<"U+D81B", "U+DE48",
              "U+16E48">>, <<"U+D81B", "U+DE49", "U+16E49">>, <<"U+D81B", "U+DE4A", "U+16E4A">>,
              <<"U+D81B", "U+DE4B", "U+16E4B">>, <<"U+D81B", "U+DE4C", "U+16E4C">>, <<"U+D81B",
              "U+DE4D", "U+16E4D">>, <<"U+D81B", "U+DE4E", "U+16E4E">>, <<"U+D81B", "U+DE4F",
              "U+16E4F">>, <<"U+D81B", "U+DE50", "U+16E50">>, <<"U+D81B", "U+DE51", "U+16E51">>,
              <<"U+D81B", "U+DE52", "U+16E52">>, <<"U+D81B", "U+DE53", "U+16E53">>, <<"U+D81B",
              "U+DE54", "U+16E54">>, <<"U+D81B", "U+DE55", "U+16E55">>, <<"U+D81B", "U+DE56",
              "U+16E56">>, <<"U+D81B", "U+DE57", "U+16E57">>, <<"U+D81B", "U+DE58", "U+16E58">>,
              <<"U+D81B", "U+DE59", "U+16E59">>, <<"U+D81B", "U+DE5A", "U+16E5A">>, <<"U+D81B",
              "U+DE5B", "U+16E5B">>, <<"U+D81B", "U+DE5C", "U+16E5C">>, <<"U+D81B", "U+DE5D",
              "U+16E5D">>, <<"U+D81B", "U+DE5E", "U+16E5E">>, <<"U+D81B", "U+DE5F", "U+16E5F">>,
              <<"U+D81B", "U+DE60", "U+16E60">>, <<"U+D81B", "U+DE61", "U+16E61">>, <<"U+D81B",
              "U+DE62", "U+16E62">>, <<"U+D81B", "U+DE63", "U+16E63">>, <<"U+D81B", "U+DE64",
              "U+16E64">>, <<"U+D81B", "U+DE65", "U+16E65">>, <<"U+D81B", "U+DE66", "U+16E66">>,
              <<"U+D81B", "U+DE67", "U+16E67">>, <<"U+D81B", "U+DE68", "U+16E68">>, <<"U+D81B",
              "U+DE69", "U+16E69">>, <<"U+D81B", "U+DE6A", "U+16E6A">>, <<"U+D81B", "U+DE6B",
              "U+16E6B">>, <<"U+D81B", "U+DE6C", "U+16E6C">>, <<"U+D81B", "U+DE6D", "U+16E6D">>,
              <<"U+D81B", "U+DE6E", "U+16E6E">>, <<"U+D81B", "U+DE6F", "U+16E6F">>, <<"U+D81B",
              "U+DE70", "U+16E70">>, <<"U+D81B", "U+DE71", "U+16E71">>, <<"U+D81B", "U+DE72",
              "U+16E72">>, <<"U+D81B", "U+DE73", "U+16E73">>, <<"U+D81B", "U+DE74", "U+16E74">>,
              <<"U+D81B", "U+DE75", "U+16E75">>, <<"U+D81B", "U+DE76", "U+16E76">>, <<"U+D81B",
              "U+DE77", "U+16E77">>, <<"U+D81B", "U+DE78", "U+16E78">>, <<"U+D81B", "U+DE79",
              "U+16E79">>, <<"U+D81B", "U+DE7A", "U+16E7A">>, <<"U+D81B", "U+DE7B", "U+16E7B">>,
              <<"U+D81B", "U+DE7C", "U+16E7C">>, <<"U+D81B", "U+DE7D", "U+16E7D">>, <<"U+D81B",
              "U+DE7E", "U+16E7E">>, <<"U+D81B", "U+DE7F", "U+16E7F">>, <<"U+D81B", "U+DEA0",
              "U+16EA0">>, <<"U+D81B", "U+DEA1", "U+16EA1">>, <<"U+D81B", "U+DEA2", "U+16EA2">>,
              <<"U+D81B", "U+DEA3", "U+16EA3">>, <<"U+D81B", "U+DEA4", "U+16EA4">>, <<"U+D81B",
              "U+DEA5", "U+16EA5">>, <<"U+D81B", "U+DEA6", "U+16EA6">>, <<"U+D81B", "U+DEA7",
              "U+16EA7">>, <<"U+D81B", "U+DEA8", "U+16EA8">>, <<"U+D81B", "U+DEA9", "U+16EA9">>,
              <<"U+D81B", "U+DEAA", "U+16EAA">>, <<"U+D81B", "U+DEAB", "U+16EAB">>, <<"U+D81B",
              "U+DEAC", "U+16EAC">>, <<"U+D81B", "U+DEAD", "U+16EAD">>, <<"U+D81B", "U+DEAE",
              "U+16EAE">>, <<"U+D81B", "U+DEAF", "U+16EAF">>, <<"U+D81B", "U+DEB0", "U+16EB0">>,
              <<"U+D81B", "U+DEB1", "U+16EB1">>, <<"U+D81B", "U+DEB2", "U+16EB2">>, <<"U+D81B",
              "U+DEB3", "U+16EB3">>, <<"U+D81B", "U+DEB4", "U+16EB4">>, <<"U+D81B", "U+DEB5",
              "U+16EB5">>, <<"U+D81B", "U+DEB6", "U+16EB6">>, <<"U+D81B", "U+DEB7", "U+16EB7">>,
              <<"U+D81B", "U+DEB8", "U+16EB8">>, <<"U+D81B", "U+DEBB", "U+16EBB">>, <<"U+D81B",
              "U+DEBC", "U+16EBC">>, <<"U+D81B", "U+DEBD", "U+16EBD">>, <<"U+D81B", "U+DEBE",
              "U+16EBE">>, <<"U+D81B", "U+DEBF", "U+16EBF">>, <<"U+D81B", "U+DEC0", "U+16EC0">>,
              <<"U+D81B", "U+DEC1", "U+16EC1">>, <<"U+D81B", "U+DEC2", "U+16EC2">>, <<"U+D81B",
              "U+DEC3", "U+16EC3">>, <<"U+D81B", "U+DEC4", "U+16EC4">>, <<"U+D81B", "U+DEC5",
              "U+16EC5">>, <<"U+D81B", "U+DEC6", "U+16EC6">>, <<"U+D81B", "U+DEC7", "U+16EC7">>,
              <<"U+D81B", "U+DEC8", "U+16EC8">>, <<"U+D81B", "U+DEC9", "U+16EC9">>, <<"U+D81B",
              "U+DECA", "U+16ECA">>, <<"U+D81B", "U+DECB", "U+16ECB">>, <<"U+D81B", "U+DECC",
              "U+16ECC">>, <<"U+D81B", "U+DECD", "U+16ECD">>, <<"U+D81B", "U+DECE", "U+16ECE">>,
              <<"U+D81B", "U+DECF", "U+16ECF">>, <<"U+D81B", "U+DED0", "U+16ED0">>, <<"U+D81B",
              "U+DED1", "U+16ED1">>, <<"U+D81B", "U+DED2", "U+16ED2">>, <<"U+D81B", "U+DED3",
              "U+16ED3">>, <<"U+D81B", "U+DF4F", "U+16F4F">>, <<"U+D81B", "U+DF8F", "U+16F8F">>,
              <<"U+D81B", "U+DF90", "U+16F90">>, <<"U+D81B", "U+DF91", "U+16F91">>, <<"U+D81B",
              "U+DF92", "U+16F92">>, <<"U+D81B", "U+DF93", "U+16F93">>, <<"U+D81B", "U+DF94",
              "U+16F94">>, <<"U+D81B", "U+DF95", "U+16F95">>, <<"U+D81B", "U+DF96", "U+16F96">>,
              <<"U+D81B", "U+DF97", "U+16F97">>, <<"U+D81B", "U+DF98", "U+16F98">>, <<"U+D81B",
              "U+DF99", "U+16F99">>, <<"U+D81B", "U+DF9A", "U+16F9A">>, <<"U+D81B", "U+DF9B",
              "U+16F9B">>, <<"U+D81B", "U+DF9C", "U+16F9C">>, <<"U+D81B", "U+DF9D", "U+16F9D">>,
              <<"U+D81B", "U+DF9E", "U+16F9E">>, <<"U+D81B", "U+DF9F", "U+16F9F">>, <<"U+D81B",
              "U+DFE0", "U+16FE0">>, <<"U+D81B", "U+DFE1", "U+16FE1">>, <<"U+D81B", "U+DFE3",
              "U+16FE3">>, <<"U+D81B", "U+DFE4", "U+16FE4">>, <<"U+D81B", "U+DFF2", "U+16FF2">>,
              <<"U+D81B", "U+DFF3", "U+16FF3">>, <<"U+D82B", "U+DFF0", "U+1AFF0">>, <<"U+D82B",
              "U+DFF1", "U+1AFF1">>, <<"U+D82B", "U+DFF2", "U+1AFF2">>, <<"U+D82B", "U+DFF3",
              "U+1AFF3">>, <<"U+D82B", "U+DFF5", "U+1AFF5">>, <<"U+D82B", "U+DFF6", "U+1AFF6">>,
              <<"U+D82B", "U+DFF7", "U+1AFF7">>, <<"U+D82B", "U+DFF8", "U+1AFF8">>, <<"U+D82B",
              "U+DFF9", "U+1AFF9">>, <<"U+D82B", "U+DFFA", "U+1AFFA">>, <<"U+D82B", "U+DFFB",
              "U+1AFFB">>, <<"U+D82B", "U+DFFD", "U+1AFFD">>, <<"U+D82B", "U+DFFE", "U+1AFFE">>,
              <<"U+D82F", "U+DC9D", "U+1BC9D">>, <<"U+D82F", "U+DC9E", "U+1BC9E">>, <<"U+D82F",
              "U+DCA0", "U+1BCA0">>, <<"U+D82F", "U+DCA1", "U+1BCA1">>, <<"U+D82F", "U+DCA2",
              "U+1BCA2">>, <<"U+D82F", "U+DCA3", "U+1BCA3">>, <<"U+D833", "U+DF00", "U+1CF00">>,
              <<"U+D833", "U+DF01", "U+1CF01">>, <<"U+D833", "U+DF02", "U+1CF02">>, <<"U+D833",
              "U+DF03", "U+1CF03">>, <<"U+D833", "U+DF04", "U+1CF04">>, <<"U+D833", "U+DF05",
              "U+1CF05">>, <<"U+D833", "U+DF06", "U+1CF06">>, <<"U+D833", "U+DF07", "U+1CF07">>,
              <<"U+D833", "U+DF08", "U+1CF08">>, <<"U+D833", "U+DF09", "U+1CF09">>, <<"U+D833",
              "U+DF0A", "U+1CF0A">>, <<"U+D833", "U+DF0B", "U+1CF0B">>, <<"U+D833", "U+DF0C",
              "U+1CF0C">>, <<"U+D833", "U+DF0D", "U+1CF0D">>, <<"U+D833", "U+DF0E", "U+1CF0E">>,
              <<"U+D833", "U+DF0F", "U+1CF0F">>, <<"U+D833", "U+DF10", "U+1CF10">>, <<"U+D833",
              "U+DF11", "U+1CF11">>, <<"U+D833", "U+DF12", "U+1CF12">>, <<"U+D833", "U+DF13",
              "U+1CF13">>, <<"U+D833", "U+DF14", "U+1CF14">>, <<"U+D833", "U+DF15", "U+1CF15">>,
              <<"U+D833", "U+DF16", "U+1CF16">>, <<"U+D833", "U+DF17", "U+1CF17">>, <<"U+D833",
              "U+DF18", "U+1CF18">>, <<"U+D833", "U+DF19", "U+1CF19">>, <<"U+D833", "U+DF1A",
              "U+1CF1A">>, <<"U+D833", "U+DF1B", "U+1CF1B">>, <<"U+D833", "U+DF1C", "U+1CF1C">>,
              <<"U+D833", "U+DF1D", "U+1CF1D">>, <<"U+D833", "U+DF1E", "U+1CF1E">>, <<"U+D833",
              "U+DF1F", "U+1CF1F">>, <<"U+D833", "U+DF20", "U+1CF20">>, <<"U+D833", "U+DF21",
              "U+1CF21">>, <<"U+D833", "U+DF22", "U+1CF22">>, <<"U+D833", "U+DF23", "U+1CF23">>,
              <<"U+D833", "U+DF24", "U+1CF24">>, <<"U+D833", "U+DF25", "U+1CF25">>, <<"U+D833",
              "U+DF26", "U+1CF26">>, <<"U+D833", "U+DF27", "U+1CF27">>, <<"U+D833", "U+DF28",
              "U+1CF28">>, <<"U+D833", "U+DF29", "U+1CF29">>, <<"U+D833", "U+DF2A", "U+1CF2A">>,
              <<"U+D833", "U+DF2B", "U+1CF2B">>, <<"U+D833", "U+DF2C", "U+1CF2C">>, <<"U+D833",
              "U+DF2D", "U+1CF2D">>, <<"U+D833", "U+DF30", "U+1CF30">>, <<"U+D833", "U+DF31",
              "U+1CF31">>, <<"U+D833", "U+DF32", "U+1CF32">>, <<"U+D833", "U+DF33", "U+1CF33">>,
              <<"U+D833", "U+DF34", "U+1CF34">>, <<"U+D833", "U+DF35", "U+1CF35">>, <<"U+D833",
              "U+DF36", "U+1CF36">>, <<"U+D833", "U+DF37", "U+1CF37">>, <<"U+D833", "U+DF38",
              "U+1CF38">>, <<"U+D833", "U+DF39", "U+1CF39">>, <<"U+D833", "U+DF3A", "U+1CF3A">>,
              <<"U+D833", "U+DF3B", "U+1CF3B">>, <<"U+D833", "U+DF3C", "U+1CF3C">>, <<"U+D833",
              "U+DF3D", "U+1CF3D">>, <<"U+D833", "U+DF3E", "U+1CF3E">>, <<"U+D833", "U+DF3F",
              "U+1CF3F">>, <<"U+D833", "U+DF40", "U+1CF40">>, <<"U+D833", "U+DF41", "U+1CF41">>,
              <<"U+D833", "U+DF42", "U+1CF42">>, <<"U+D833", "U+DF43", "U+1CF43">>, <<"U+D833",
              "U+DF44", "U+1CF44">>, <<"U+D833", "U+DF45", "U+1CF45">>, <<"U+D833", "U+DF46",
              "U+1CF46">>, <<"U+D834", "U+DD67", "U+1D167">>, <<"U+D834", "U+DD68", "U+1D168">>,
              <<"U+D834", "U+DD69", "U+1D169">>, <<"U+D834", "U+DD73", "U+1D173">>, <<"U+D834",
              "U+DD74", "U+1D174">>, <<"U+D834", "U+DD75", "U+1D175">>, <<"U+D834", "U+DD76",
              "U+1D176">>, <<"U+D834", "U+DD77", "U+1D177">>, <<"U+D834", "U+DD78", "U+1D178">>,
              <<"U+D834", "U+DD79", "U+1D179">>, <<"U+D834", "U+DD7A", "U+1D17A">>, <<"U+D834",
              "U+DD7B", "U+1D17B">>, <<"U+D834", "U+DD7C", "U+1D17C">>, <<"U+D834", "U+DD7D",
              "U+1D17D">>, <<"U+D834", "U+DD7E", "U+1D17E">>, <<"U+D834", "U+DD7F", "U+1D17F">>,
              <<"U+D834", "U+DD80", "U+1D180">>, <<"U+D834", "U+DD81", "U+1D181">>, <<"U+D834",
              "U+DD82", "U+1D182">>, <<"U+D834", "U+DD85", "U+1D185">>, <<"U+D834", "U+DD86",
              "U+1D186">>, <<"U+D834", "U+DD87", "U+1D187">>, <<"U+D834", "U+DD88", "U+1D188">>,
              <<"U+D834", "U+DD89", "U+1D189">>, <<"U+D834", "U+DD8A", "U+1D18A">>, <<"U+D834",
              "U+DD8B", "U+1D18B">>, <<"U+D834", "U+DDAA", "U+1D1AA">>, <<"U+D834", "U+DDAB",
              "U+1D1AB">>, <<"U+D834", "U+DDAC", "U+1D1AC">>, <<"U+D834", "U+DDAD", "U+1D1AD">>,
              <<"U+D834", "U+DE42", "U+1D242">>, <<"U+D834", "U+DE43", "U+1D243">>, <<"U+D834",
              "U+DE44", "U+1D244">>, <<"U+D835", "U+DC00", "U+1D400">>, <<"U+D835", "U+DC01",
              "U+1D401">>, <<"U+D835", "U+DC02", "U+1D402">>, <<"U+D835", "U+DC03", "U+1D403">>,
              <<"U+D835", "U+DC04", "U+1D404">>, <<"U+D835", "U+DC05", "U+1D405">>, <<"U+D835",
              "U+DC06", "U+1D406">>, <<"U+D835", "U+DC07", "U+1D407">>, <<"U+D835", "U+DC08",
              "U+1D408">>, <<"U+D835", "U+DC09", "U+1D409">>, <<"U+D835", "U+DC0A", "U+1D40A">>,
              <<"U+D835", "U+DC0B", "U+1D40B">>, <<"U+D835", "U+DC0C", "U+1D40C">>, <<"U+D835",
              "U+DC0D", "U+1D40D">>, <<"U+D835", "U+DC0E", "U+1D40E">>, <<"U+D835", "U+DC0F",
              "U+1D40F">>, <<"U+D835", "U+DC10", "U+1D410">>, <<"U+D835", "U+DC11", "U+1D411">>,
              <<"U+D835", "U+DC12", "U+1D412">>, <<"U+D835", "U+DC13", "U+1D413">>, <<"U+D835",
              "U+DC14", "U+1D414">>, <<"U+D835", "U+DC15", "U+1D415">>, <<"U+D835", "U+DC16",
              "U+1D416">>, <<"U+D835", "U+DC17", "U+1D417">>, <<"U+D835", "U+DC18", "U+1D418">>,
              <<"U+D835", "U+DC19", "U+1D419">>, <<"U+D835", "U+DC1A", "U+1D41A">>, <<"U+D835",
              "U+DC1B", "U+1D41B">>, <<"U+D835", "U+DC1C", "U+1D41C">>, <<"U+D835", "U+DC1D",
              "U+1D41D">>, <<"U+D835", "U+DC1E", "U+1D41E">>, <<"U+D835", "U+DC1F", "U+1D41F">>,
              <<"U+D835", "U+DC20", "U+1D420">>, <<"U+D835", "U+DC21", "U+1D421">>, <<"U+D835",
              "U+DC22", "U+1D422">>, <<"U+D835", "U+DC23", "U+1D423">>, <<"U+D835", "U+DC24",
              "U+1D424">>, <<"U+D835", "U+DC25", "U+1D425">>, <<"U+D835", "U+DC26", "U+1D426">>,
              <<"U+D835", "U+DC27", "U+1D427">>, <<"U+D835", "U+DC28", "U+1D428">>, <<"U+D835",
              "U+DC29", "U+1D429">>, <<"U+D835", "U+DC2A", "U+1D42A">>, <<"U+D835", "U+DC2B",
              "U+1D42B">>, <<"U+D835", "U+DC2C", "U+1D42C">>, <<"U+D835", "U+DC2D", "U+1D42D">>,
              <<"U+D835", "U+DC2E", "U+1D42E">>, <<"U+D835", "U+DC2F", "U+1D42F">>, <<"U+D835",
              "U+DC30", "U+1D430">>, <<"U+D835", "U+DC31", "U+1D431">>, <<"U+D835", "U+DC32",
              "U+1D432">>, <<"U+D835", "U+DC33", "U+1D433">>, <<"U+D835", "U+DC34", "U+1D434">>,
              <<"U+D835", "U+DC35", "U+1D435">>, <<"U+D835", "U+DC36", "U+1D436">>, <<"U+D835",
              "U+DC37", "U+1D437">>, <<"U+D835", "U+DC38", "U+1D438">>, <<"U+D835", "U+DC39",
              "U+1D439">>, <<"U+D835", "U+DC3A", "U+1D43A">>, <<"U+D835", "U+DC3B", "U+1D43B">>,
              <<"U+D835", "U+DC3C", "U+1D43C">>, <<"U+D835", "U+DC3D", "U+1D43D">>, <<"U+D835",
              "U+DC3E", "U+1D43E">>, <<"U+D835", "U+DC3F", "U+1D43F">>, <<"U+D835", "U+DC40",
              "U+1D440">>, <<"U+D835", "U+DC41", "U+1D441">>, <<"U+D835", "U+DC42", "U+1D442">>,
              <<"U+D835", "U+DC43", "U+1D443">>, <<"U+D835", "U+DC44", "U+1D444">>, <<"U+D835",
              "U+DC45", "U+1D445">>, <<"U+D835", "U+DC46", "U+1D446">>, <<"U+D835", "U+DC47",
              "U+1D447">>, <<"U+D835", "U+DC48", "U+1D448">>, <<"U+D835", "U+DC49", "U+1D449">>,
              <<"U+D835", "U+DC4A", "U+1D44A">>, <<"U+D835", "U+DC4B", "U+1D44B">>, <<"U+D835",
              "U+DC4C", "U+1D44C">>, <<"U+D835", "U+DC4D", "U+1D44D">>, <<"U+D835", "U+DC4E",
              "U+1D44E">>, <<"U+D835", "U+DC4F", "U+1D44F">>, <<"U+D835", "U+DC50", "U+1D450">>,
              <<"U+D835", "U+DC51", "U+1D451">>, <<"U+D835", "U+DC52", "U+1D452">>, <<"U+D835",
              "U+DC53", "U+1D453">>, <<"U+D835", "U+DC54", "U+1D454">>, <<"U+D835", "U+DC56",
              "U+1D456">>, <<"U+D835", "U+DC57", "U+1D457">>, <<"U+D835", "U+DC58", "U+1D458">>,
              <<"U+D835", "U+DC59", "U+1D459">>, <<"U+D835", "U+DC5A", "U+1D45A">>, <<"U+D835",
              "U+DC5B", "U+1D45B">>, <<"U+D835", "U+DC5C", "U+1D45C">>, <<"U+D835", "U+DC5D",
              "U+1D45D">>, <<"U+D835", "U+DC5E", "U+1D45E">>, <<"U+D835", "U+DC5F", "U+1D45F">>,
              <<"U+D835", "U+DC60", "U+1D460">>, <<"U+D835", "U+DC61", "U+1D461">>, <<"U+D835",
              "U+DC62", "U+1D462">>, <<"U+D835", "U+DC63", "U+1D463">>, <<"U+D835", "U+DC64",
              "U+1D464">>, <<"U+D835", "U+DC65", "U+1D465">>, <<"U+D835", "U+DC66", "U+1D466">>,
              <<"U+D835", "U+DC67", "U+1D467">>, <<"U+D835", "U+DC68", "U+1D468">>, <<"U+D835",
              "U+DC69", "U+1D469">>, <<"U+D835", "U+DC6A", "U+1D46A">>, <<"U+D835", "U+DC6B",
              "U+1D46B">>, <<"U+D835", "U+DC6C", "U+1D46C">>, <<"U+D835", "U+DC6D", "U+1D46D">>,
              <<"U+D835", "U+DC6E", "U+1D46E">>, <<"U+D835", "U+DC6F", "U+1D46F">>, <<"U+D835",
              "U+DC70", "U+1D470">>, <<"U+D835", "U+DC71", "U+1D471">>, <<"U+D835", "U+DC72",
              "U+1D472">>, <<"U+D835", "U+DC73", "U+1D473">>, <<"U+D835", "U+DC74", "U+1D474">>,
              <<"U+D835", "U+DC75", "U+1D475">>, <<"U+D835", "U+DC76", "U+1D476">>, <<"U+D835",
              "U+DC77", "U+1D477">>, <<"U+D835", "U+DC78", "U+1D478">>, <<"U+D835", "U+DC79",
              "U+1D479">>, <<"U+D835", "U+DC7A", "U+1D47A">>, <<"U+D835", "U+DC7B", "U+1D47B">>,
              <<"U+D835", "U+DC7C", "U+1D47C">>, <<"U+D835", "U+DC7D", "U+1D47D">>, <<"U+D835",
              "U+DC7E", "U+1D47E">>, <<"U+D835", "U+DC7F", "U+1D47F">>, <<"U+D835", "U+DC80",
              "U+1D480">>, <<"U+D835", "U+DC81", "U+1D481">>, <<"U+D835", "U+DC82", "U+1D482">>,
              <<"U+D835", "U+DC83", "U+1D483">>, <<"U+D835", "U+DC84", "U+1D484">>, <<"U+D835",
              "U+DC85", "U+1D485">>, <<"U+D835", "U+DC86", "U+1D486">>, <<"U+D835", "U+DC87",
              "U+1D487">>, <<"U+D835", "U+DC88", "U+1D488">>, <<"U+D835", "U+DC89", "U+1D489">>,
              <<"U+D835", "U+DC8A", "U+1D48A">>, <<"U+D835", "U+DC8B", "U+1D48B">>, <<"U+D835",
              "U+DC8C", "U+1D48C">>, <<"U+D835", "U+DC8D", "U+1D48D">>, <<"U+D835", "U+DC8E",
              "U+1D48E">>, <<"U+D835", "U+DC8F", "U+1D48F">>, <<"U+D835", "U+DC90", "U+1D490">>,
              <<"U+D835", "U+DC91", "U+1D491">>, <<"U+D835", "U+DC92", "U+1D492">>, <<"U+D835",
              "U+DC93", "U+1D493">>, <<"U+D835", "U+DC94", "U+1D494">>, <<"U+D835", "U+DC95",
              "U+1D495">>, <<"U+D835", "U+DC96", "U+1D496">>, <<"U+D835", "U+DC97", "U+1D497">>,
              <<"U+D835", "U+DC98", "U+1D498">>, <<"U+D835", "U+DC99", "U+1D499">>, <<"U+D835",
              "U+DC9A", "U+1D49A">>, <<"U+D835", "U+DC9B", "U+1D49B">>, <<"U+D835", "U+DC9C",
              "U+1D49C">>, <<"U+D835", "U+DC9E", "U+1D49E">>, <<"U+D835", "U+DC9F", "U+1D49F">>,
              <<"U+D835", "U+DCA2", "U+1D4A2">>, <<"U+D835", "U+DCA5", "U+1D4A5">>, <<"U+D835",
              "U+DCA6", "U+1D4A6">>, <<"U+D835", "U+DCA9", "U+1D4A9">>, <<"U+D835", "U+DCAA",
              "U+1D4AA">>, <<"U+D835", "U+DCAB", "U+1D4AB">>, <<"U+D835", "U+DCAC", "U+1D4AC">>,
              <<"U+D835", "U+DCAE", "U+1D4AE">>, <<"U+D835", "U+DCAF", "U+1D4AF">>, <<"U+D835",
              "U+DCB0", "U+1D4B0">>, <<"U+D835", "U+DCB1", "U+1D4B1">>, <<"U+D835", "U+DCB2",
              "U+1D4B2">>, <<"U+D835", "U+DCB3", "U+1D4B3">>, <<"U+D835", "U+DCB4", "U+1D4B4">>,
              <<"U+D835", "U+DCB5", "U+1D4B5">>, <<"U+D835", "U+DCB6", "U+1D4B6">>, <<"U+D835",
              "U+DCB7", "U+1D4B7">>, <<"U+D835", "U+DCB8", "U+1D4B8">>, <<"U+D835", "U+DCB9",
              "U+1D4B9">>, <<"U+D835", "U+DCBB", "U+1D4BB">>, <<"U+D835", "U+DCBD", "U+1D4BD">>,
              <<"U+D835", "U+DCBE", "U+1D4BE">>, <<"U+D835", "U+DCBF", "U+1D4BF">>, <<"U+D835",
              "U+DCC0", "U+1D4C0">>, <<"U+D835", "U+DCC1", "U+1D4C1">>, <<"U+D835", "U+DCC2",
              "U+1D4C2">>, <<"U+D835", "U+DCC3", "U+1D4C3">>, <<"U+D835", "U+DCC5", "U+1D4C5">>,
              <<"U+D835", "U+DCC6", "U+1D4C6">>, <<"U+D835", "U+DCC7", "U+1D4C7">>, <<"U+D835",
              "U+DCC8", "U+1D4C8">>, <<"U+D835", "U+DCC9", "U+1D4C9">>, <<"U+D835", "U+DCCA",
              "U+1D4CA">>, <<"U+D835", "U+DCCB", "U+1D4CB">>, <<"U+D835", "U+DCCC", "U+1D4CC">>,
              <<"U+D835", "U+DCCD", "U+1D4CD">>, <<"U+D835", "U+DCCE", "U+1D4CE">>, <<"U+D835",
              "U+DCCF", "U+1D4CF">>, <<"U+D835", "U+DCD0", "U+1D4D0">>, <<"U+D835", "U+DCD1",
              "U+1D4D1">>, <<"U+D835", "U+DCD2", "U+1D4D2">>, <<"U+D835", "U+DCD3", "U+1D4D3">>,
              <<"U+D835", "U+DCD4", "U+1D4D4">>, <<"U+D835", "U+DCD5", "U+1D4D5">>, <<"U+D835",
              "U+DCD6", "U+1D4D6">>, <<"U+D835", "U+DCD7", "U+1D4D7">>, <<"U+D835", "U+DCD8",
              "U+1D4D8">>, <<"U+D835", "U+DCD9", "U+1D4D9">>, <<"U+D835", "U+DCDA", "U+1D4DA">>,
              <<"U+D835", "U+DCDB", "U+1D4DB">>, <<"U+D835", "U+DCDC", "U+1D4DC">>, <<"U+D835",
              "U+DCDD", "U+1D4DD">>, <<"U+D835", "U+DCDE", "U+1D4DE">>, <<"U+D835", "U+DCDF",
              "U+1D4DF">>, <<"U+D835", "U+DCE0", "U+1D4E0">>, <<"U+D835", "U+DCE1", "U+1D4E1">>,
              <<"U+D835", "U+DCE2", "U+1D4E2">>, <<"U+D835", "U+DCE3", "U+1D4E3">>, <<"U+D835",
              "U+DCE4", "U+1D4E4">>, <<"U+D835", "U+DCE5", "U+1D4E5">>, <<"U+D835", "U+DCE6",
              "U+1D4E6">>, <<"U+D835", "U+DCE7", "U+1D4E7">>, <<"U+D835", "U+DCE8", "U+1D4E8">>,
              <<"U+D835", "U+DCE9", "U+1D4E9">>, <<"U+D835", "U+DCEA", "U+1D4EA">>, <<"U+D835",
              "U+DCEB", "U+1D4EB">>, <<"U+D835", "U+DCEC", "U+1D4EC">>, <<"U+D835", "U+DCED",
              "U+1D4ED">>, <<"U+D835", "U+DCEE", "U+1D4EE">>, <<"U+D835", "U+DCEF", "U+1D4EF">>,
              <<"U+D835", "U+DCF0", "U+1D4F0">>, <<"U+D835", "U+DCF1", "U+1D4F1">>, <<"U+D835",
              "U+DCF2", "U+1D4F2">>, <<"U+D835", "U+DCF3", "U+1D4F3">>, <<"U+D835", "U+DCF4",
              "U+1D4F4">>, <<"U+D835", "U+DCF5", "U+1D4F5">>, <<"U+D835", "U+DCF6", "U+1D4F6">>,
              <<"U+D835", "U+DCF7", "U+1D4F7">>, <<"U+D835", "U+DCF8", "U+1D4F8">>, <<"U+D835",
              "U+DCF9", "U+1D4F9">>, <<"U+D835", "U+DCFA", "U+1D4FA">>, <<"U+D835", "U+DCFB",
              "U+1D4FB">>, <<"U+D835", "U+DCFC", "U+1D4FC">>, <<"U+D835", "U+DCFD", "U+1D4FD">>,
              <<"U+D835", "U+DCFE", "U+1D4FE">>, <<"U+D835", "U+DCFF", "U+1D4FF">>, <<"U+D835",
              "U+DD00", "U+1D500">>, <<"U+D835", "U+DD01", "U+1D501">>, <<"U+D835", "U+DD02",
              "U+1D502">>, <<"U+D835", "U+DD03", "U+1D503">>, <<"U+D835", "U+DD04", "U+1D504">>,
              <<"U+D835", "U+DD05", "U+1D505">>, <<"U+D835", "U+DD07", "U+1D507">>, <<"U+D835",
              "U+DD08", "U+1D508">>, <<"U+D835", "U+DD09", "U+1D509">>, <<"U+D835", "U+DD0A",
              "U+1D50A">>, <<"U+D835", "U+DD0D", "U+1D50D">>, <<"U+D835", "U+DD0E", "U+1D50E">>,
              <<"U+D835", "U+DD0F", "U+1D50F">>, <<"U+D835", "U+DD10", "U+1D510">>, <<"U+D835",
              "U+DD11", "U+1D511">>, <<"U+D835", "U+DD12", "U+1D512">>, <<"U+D835", "U+DD13",
              "U+1D513">>, <<"U+D835", "U+DD14", "U+1D514">>, <<"U+D835", "U+DD16", "U+1D516">>,
              <<"U+D835", "U+DD17", "U+1D517">>, <<"U+D835", "U+DD18", "U+1D518">>, <<"U+D835",
              "U+DD19", "U+1D519">>, <<"U+D835", "U+DD1A", "U+1D51A">>, <<"U+D835", "U+DD1B",
              "U+1D51B">>, <<"U+D835", "U+DD1C", "U+1D51C">>, <<"U+D835", "U+DD1E", "U+1D51E">>,
              <<"U+D835", "U+DD1F", "U+1D51F">>, <<"U+D835", "U+DD20", "U+1D520">>, <<"U+D835",
              "U+DD21", "U+1D521">>, <<"U+D835", "U+DD22", "U+1D522">>, <<"U+D835", "U+DD23",
              "U+1D523">>, <<"U+D835", "U+DD24", "U+1D524">>, <<"U+D835", "U+DD25", "U+1D525">>,
              <<"U+D835", "U+DD26", "U+1D526">>, <<"U+D835", "U+DD27", "U+1D527">>, <<"U+D835",
              "U+DD28", "U+1D528">>, <<"U+D835", "U+DD29", "U+1D529">>, <<"U+D835", "U+DD2A",
              "U+1D52A">>, <<"U+D835", "U+DD2B", "U+1D52B">>, <<"U+D835", "U+DD2C", "U+1D52C">>,
              <<"U+D835", "U+DD2D", "U+1D52D">>, <<"U+D835", "U+DD2E", "U+1D52E">>, <<"U+D835",
              "U+DD2F", "U+1D52F">>, <<"U+D835", "U+DD30", "U+1D530">>, <<"U+D835", "U+DD31",
              "U+1D531">>, <<"U+D835", "U+DD32", "U+1D532">>, <<"U+D835", "U+DD33", "U+1D533">>,
              <<"U+D835", "U+DD34", "U+1D534">>, <<"U+D835", "U+DD35", "U+1D535">>, <<"U+D835",
              "U+DD36", "U+1D536">>, <<"U+D835", "U+DD37", "U+1D537">>, <<"U+D835", "U+DD38",
              "U+1D538">>, <<"U+D835", "U+DD39", "U+1D539">>, <<"U+D835", "U+DD3B", "U+1D53B">>,
              <<"U+D835", "U+DD3C", "U+1D53C">>, <<"U+D835", "U+DD3D", "U+1D53D">>, <<"U+D835",
              "U+DD3E", "U+1D53E">>, <<"U+D835", "U+DD40", "U+1D540">>, <<"U+D835", "U+DD41",
              "U+1D541">>, <<"U+D835", "U+DD42", "U+1D542">>, <<"U+D835", "U+DD43", "U+1D543">>,
              <<"U+D835", "U+DD44", "U+1D544">>, <<"U+D835", "U+DD46", "U+1D546">>, <<"U+D835",
              "U+DD4A", "U+1D54A">>, <<"U+D835", "U+DD4B", "U+1D54B">>, <<"U+D835", "U+DD4C",
              "U+1D54C">>, <<"U+D835", "U+DD4D", "U+1D54D">>, <<"U+D835", "U+DD4E", "U+1D54E">>,
              <<"U+D835", "U+DD4F", "U+1D54F">>, <<"U+D835", "U+DD50", "U+1D550">>, <<"U+D835",
              "U+DD52", "U+1D552">>, <<"U+D835", "U+DD53", "U+1D553">>, <<"U+D835", "U+DD54",
              "U+1D554">>, <<"U+D835", "U+DD55", "U+1D555">>, <<"U+D835", "U+DD56", "U+1D556">>,
              <<"U+D835", "U+DD57", "U+1D557">>, <<"U+D835", "U+DD58", "U+1D558">>, <<"U+D835",
              "U+DD59", "U+1D559">>, <<"U+D835", "U+DD5A", "U+1D55A">>, <<"U+D835", "U+DD5B",
              "U+1D55B">>, <<"U+D835", "U+DD5C", "U+1D55C">>, <<"U+D835", "U+DD5D", "U+1D55D">>,
              <<"U+D835", "U+DD5E", "U+1D55E">>, <<"U+D835", "U+DD5F", "U+1D55F">>, <<"U+D835",
              "U+DD60", "U+1D560">>, <<"U+D835", "U+DD61", "U+1D561">>, <<"U+D835", "U+DD62",
              "U+1D562">>, <<"U+D835", "U+DD63", "U+1D563">>, <<"U+D835", "U+DD64", "U+1D564">>,
              <<"U+D835", "U+DD65", "U+1D565">>, <<"U+D835", "U+DD66", "U+1D566">>, <<"U+D835",
              "U+DD67", "U+1D567">>, <<"U+D835", "U+DD68", "U+1D568">>, <<"U+D835", "U+DD69",
              "U+1D569">>, <<"U+D835", "U+DD6A", "U+1D56A">>, <<"U+D835", "U+DD6B", "U+1D56B">>,
              <<"U+D835", "U+DD6C", "U+1D56C">>, <<"U+D835", "U+DD6D", "U+1D56D">>, <<"U+D835",
              "U+DD6E", "U+1D56E">>, <<"U+D835", "U+DD6F", "U+1D56F">>, <<"U+D835", "U+DD70",
              "U+1D570">>, <<"U+D835", "U+DD71", "U+1D571">>, <<"U+D835", "U+DD72", "U+1D572">>,
              <<"U+D835", "U+DD73", "U+1D573">>, <<"U+D835", "U+DD74", "U+1D574">>, <<"U+D835",
              "U+DD75", "U+1D575">>, <<"U+D835", "U+DD76", "U+1D576">>, <<"U+D835", "U+DD77",
              "U+1D577">>, <<"U+D835", "U+DD78", "U+1D578">>, <<"U+D835", "U+DD79", "U+1D579">>,
              <<"U+D835", "U+DD7A", "U+1D57A">>, <<"U+D835", "U+DD7B", "U+1D57B">>, <<"U+D835",
              "U+DD7C", "U+1D57C">>, <<"U+D835", "U+DD7D", "U+1D57D">>, <<"U+D835", "U+DD7E",
              "U+1D57E">>, <<"U+D835", "U+DD7F", "U+1D57F">>, <<"U+D835", "U+DD80", "U+1D580">>,
              <<"U+D835", "U+DD81", "U+1D581">>, <<"U+D835", "U+DD82", "U+1D582">>, <<"U+D835",
              "U+DD83", "U+1D583">>, <<"U+D835", "U+DD84", "U+1D584">>, <<"U+D835", "U+DD85",
              "U+1D585">>, <<"U+D835", "U+DD86", "U+1D586">>, <<"U+D835", "U+DD87", "U+1D587">>,
              <<"U+D835", "U+DD88", "U+1D588">>, <<"U+D835", "U+DD89", "U+1D589">>, <<"U+D835",
              "U+DD8A", "U+1D58A">>, <<"U+D835", "U+DD8B", "U+1D58B">>, <<"U+D835", "U+DD8C",
              "U+1D58C">>, <<"U+D835", "U+DD8D", "U+1D58D">>, <<"U+D835", "U+DD8E", "U+1D58E">>,
              <<"U+D835", "U+DD8F", "U+1D58F">>, <<"U+D835", "U+DD90", "U+1D590">>, <<"U+D835",
              "U+DD91", "U+1D591">>, <<"U+D835", "U+DD92", "U+1D592">>, <<"U+D835", "U+DD93",
              "U+1D593">>, <<"U+D835", "U+DD94", "U+1D594">>, <<"U+D835", "U+DD95", "U+1D595">>,
              <<"U+D835", "U+DD96", "U+1D596">>, <<"U+D835", "U+DD97", "U+1D597">>, <<"U+D835",
              "U+DD98", "U+1D598">>, <<"U+D835", "U+DD99", "U+1D599">>, <<"U+D835", "U+DD9A",
              "U+1D59A">>, <<"U+D835", "U+DD9B", "U+1D59B">>, <<"U+D835", "U+DD9C", "U+1D59C">>,
              <<"U+D835", "U+DD9D", "U+1D59D">>, <<"U+D835", "U+DD9E", "U+1D59E">>, <<"U+D835",
              "U+DD9F", "U+1D59F">>, <<"U+D835", "U+DDA0", "U+1D5A0">>, <<"U+D835", "U+DDA1",
              "U+1D5A1">>, <<"U+D835", "U+DDA2", "U+1D5A2">>, <<"U+D835", "U+DDA3", "U+1D5A3">>,
              <<"U+D835", "U+DDA4", "U+1D5A4">>, <<"U+D835", "U+DDA5", "U+1D5A5">>, <<"U+D835",
              "U+DDA6", "U+1D5A6">>, <<"U+D835", "U+DDA7", "U+1D5A7">>, <<"U+D835", "U+DDA8",
              "U+1D5A8">>, <<"U+D835", "U+DDA9", "U+1D5A9">>, <<"U+D835", "U+DDAA", "U+1D5AA">>,
              <<"U+D835", "U+DDAB", "U+1D5AB">>, <<"U+D835", "U+DDAC", "U+1D5AC">>, <<"U+D835",
              "U+DDAD", "U+1D5AD">>, <<"U+D835", "U+DDAE", "U+1D5AE">>, <<"U+D835", "U+DDAF",
              "U+1D5AF">>, <<"U+D835", "U+DDB0", "U+1D5B0">>, <<"U+D835", "U+DDB1", "U+1D5B1">>,
              <<"U+D835", "U+DDB2", "U+1D5B2">>, <<"U+D835", "U+DDB3", "U+1D5B3">>, <<"U+D835",
              "U+DDB4", "U+1D5B4">>, <<"U+D835", "U+DDB5", "U+1D5B5">>, <<"U+D835", "U+DDB6",
              "U+1D5B6">>, <<"U+D835", "U+DDB7", "U+1D5B7">>, <<"U+D835", "U+DDB8", "U+1D5B8">>,
              <<"U+D835", "U+DDB9", "U+1D5B9">>, <<"U+D835", "U+DDBA", "U+1D5BA">>, <<"U+D835",
              "U+DDBB", "U+1D5BB">>, <<"U+D835", "U+DDBC", "U+1D5BC">>, <<"U+D835", "U+DDBD",
              "U+1D5BD">>, <<"U+D835", "U+DDBE", "U+1D5BE">>, <<"U+D835", "U+DDBF", "U+1D5BF">>,
              <<"U+D835", "U+DDC0", "U+1D5C0">>, <<"U+D835", "U+DDC1", "U+1D5C1">>, <<"U+D835",
              "U+DDC2", "U+1D5C2">>, <<"U+D835", "U+DDC3", "U+1D5C3">>, <<"U+D835", "U+DDC4",
              "U+1D5C4">>, <<"U+D835", "U+DDC5", "U+1D5C5">>, <<"U+D835", "U+DDC6", "U+1D5C6">>,
              <<"U+D835", "U+DDC7", "U+1D5C7">>, <<"U+D835", "U+DDC8", "U+1D5C8">>, <<"U+D835",
              "U+DDC9", "U+1D5C9">>, <<"U+D835", "U+DDCA", "U+1D5CA">>, <<"U+D835", "U+DDCB",
              "U+1D5CB">>, <<"U+D835", "U+DDCC", "U+1D5CC">>, <<"U+D835", "U+DDCD", "U+1D5CD">>,
              <<"U+D835", "U+DDCE", "U+1D5CE">>, <<"U+D835", "U+DDCF", "U+1D5CF">>, <<"U+D835",
              "U+DDD0", "U+1D5D0">>, <<"U+D835", "U+DDD1", "U+1D5D1">>, <<"U+D835", "U+DDD2",
              "U+1D5D2">>, <<"U+D835", "U+DDD3", "U+1D5D3">>, <<"U+D835", "U+DDD4", "U+1D5D4">>,
              <<"U+D835", "U+DDD5", "U+1D5D5">>, <<"U+D835", "U+DDD6", "U+1D5D6">>, <<"U+D835",
              "U+DDD7", "U+1D5D7">>, <<"U+D835", "U+DDD8", "U+1D5D8">>, <<"U+D835", "U+DDD9",
              "U+1D5D9">>, <<"U+D835", "U+DDDA", "U+1D5DA">>, <<"U+D835", "U+DDDB", "U+1D5DB">>,
              <<"U+D835", "U+DDDC", "U+1D5DC">>, <<"U+D835", "U+DDDD", "U+1D5DD">>, <<"U+D835",
              "U+DDDE", "U+1D5DE">>, <<"U+D835", "U+DDDF", "U+1D5DF">>, <<"U+D835", "U+DDE0",
              "U+1D5E0">>, <<"U+D835", "U+DDE1", "U+1D5E1">>, <<"U+D835", "U+DDE2", "U+1D5E2">>,
              <<"U+D835", "U+DDE3", "U+1D5E3">>, <<"U+D835", "U+DDE4", "U+1D5E4">>, <<"U+D835",
              "U+DDE5", "U+1D5E5">>, <<"U+D835", "U+DDE6", "U+1D5E6">>, <<"U+D835", "U+DDE7",
              "U+1D5E7">>, <<"U+D835", "U+DDE8", "U+1D5E8">>, <<"U+D835", "U+DDE9", "U+1D5E9">>,
              <<"U+D835", "U+DDEA", "U+1D5EA">>, <<"U+D835", "U+DDEB", "U+1D5EB">>, <<"U+D835",
              "U+DDEC", "U+1D5EC">>, <<"U+D835", "U+DDED", "U+1D5ED">>, <<"U+D835", "U+DDEE",
              "U+1D5EE">>, <<"U+D835", "U+DDEF", "U+1D5EF">>, <<"U+D835", "U+DDF0", "U+1D5F0">>,
              <<"U+D835", "U+DDF1", "U+1D5F1">>, <<"U+D835", "U+DDF2", "U+1D5F2">>, <<"U+D835",
              "U+DDF3", "U+1D5F3">>, <<"U+D835", "U+DDF4", "U+1D5F4">>, <<"U+D835", "U+DDF5",
              "U+1D5F5">>, <<"U+D835", "U+DDF6", "U+1D5F6">>, <<"U+D835", "U+DDF7", "U+1D5F7">>,
              <<"U+D835", "U+DDF8", "U+1D5F8">>, <<"U+D835", "U+DDF9", "U+1D5F9">>, <<"U+D835",
              "U+DDFA", "U+1D5FA">>, <<"U+D835", "U+DDFB", "U+1D5FB">>, <<"U+D835", "U+DDFC",
              "U+1D5FC">>, <<"U+D835", "U+DDFD", "U+1D5FD">>, <<"U+D835", "U+DDFE", "U+1D5FE">>,
              <<"U+D835", "U+DDFF", "U+1D5FF">>, <<"U+D835", "U+DE00", "U+1D600">>, <<"U+D835",
              "U+DE01", "U+1D601">>, <<"U+D835", "U+DE02", "U+1D602">>, <<"U+D835", "U+DE03",
              "U+1D603">>, <<"U+D835", "U+DE04", "U+1D604">>, <<"U+D835", "U+DE05", "U+1D605">>,
              <<"U+D835", "U+DE06", "U+1D606">>, <<"U+D835", "U+DE07", "U+1D607">>, <<"U+D835",
              "U+DE08", "U+1D608">>, <<"U+D835", "U+DE09", "U+1D609">>, <<"U+D835", "U+DE0A",
              "U+1D60A">>, <<"U+D835", "U+DE0B", "U+1D60B">>, <<"U+D835", "U+DE0C", "U+1D60C">>,
              <<"U+D835", "U+DE0D", "U+1D60D">>, <<"U+D835", "U+DE0E", "U+1D60E">>, <<"U+D835",
              "U+DE0F", "U+1D60F">>, <<"U+D835", "U+DE10", "U+1D610">>, <<"U+D835", "U+DE11",
              "U+1D611">>, <<"U+D835", "U+DE12", "U+1D612">>, <<"U+D835", "U+DE13", "U+1D613">>,
              <<"U+D835", "U+DE14", "U+1D614">>, <<"U+D835", "U+DE15", "U+1D615">>, <<"U+D835",
              "U+DE16", "U+1D616">>, <<"U+D835", "U+DE17", "U+1D617">>, <<"U+D835", "U+DE18",
              "U+1D618">>, <<"U+D835", "U+DE19", "U+1D619">>, <<"U+D835", "U+DE1A", "U+1D61A">>,
              <<"U+D835", "U+DE1B", "U+1D61B">>, <<"U+D835", "U+DE1C", "U+1D61C">>, <<"U+D835",
              "U+DE1D", "U+1D61D">>, <<"U+D835", "U+DE1E", "U+1D61E">>, <<"U+D835", "U+DE1F",
              "U+1D61F">>, <<"U+D835", "U+DE20", "U+1D620">>, <<"U+D835", "U+DE21", "U+1D621">>,
              <<"U+D835", "U+DE22", "U+1D622">>, <<"U+D835", "U+DE23", "U+1D623">>, <<"U+D835",
              "U+DE24", "U+1D624">>, <<"U+D835", "U+DE25", "U+1D625">>, <<"U+D835", "U+DE26",
              "U+1D626">>, <<"U+D835", "U+DE27", "U+1D627">>, <<"U+D835", "U+DE28", "U+1D628">>,
              <<"U+D835", "U+DE29", "U+1D629">>, <<"U+D835", "U+DE2A", "U+1D62A">>, <<"U+D835",
              "U+DE2B", "U+1D62B">>, <<"U+D835", "U+DE2C", "U+1D62C">>, <<"U+D835", "U+DE2D",
              "U+1D62D">>, <<"U+D835", "U+DE2E", "U+1D62E">>, <<"U+D835", "U+DE2F", "U+1D62F">>,
              <<"U+D835", "U+DE30", "U+1D630">>, <<"U+D835", "U+DE31", "U+1D631">>, <<"U+D835",
              "U+DE32", "U+1D632">>, <<"U+D835", "U+DE33", "U+1D633">>, <<"U+D835", "U+DE34",
              "U+1D634">>, <<"U+D835", "U+DE35", "U+1D635">>, <<"U+D835", "U+DE36", "U+1D636">>,
              <<"U+D835", "U+DE37", "U+1D637">>, <<"U+D835", "U+DE38", "U+1D638">>, <<"U+D835",
              "U+DE39", "U+1D639">>, <<"U+D835", "U+DE3A", "U+1D63A">>, <<"U+D835", "U+DE3B",
              "U+1D63B">>, <<"U+D835", "U+DE3C", "U+1D63C">>, <<"U+D835", "U+DE3D", "U+1D63D">>,
              <<"U+D835", "U+DE3E", "U+1D63E">>, <<"U+D835", "U+DE3F", "U+1D63F">>, <<"U+D835",
              "U+DE40", "U+1D640">>, <<"U+D835", "U+DE41", "U+1D641">>, <<"U+D835", "U+DE42",
              "U+1D642">>, <<"U+D835", "U+DE43", "U+1D643">>, <<"U+D835", "U+DE44", "U+1D644">>,
              <<"U+D835", "U+DE45", "U+1D645">>, <<"U+D835", "U+DE46", "U+1D646">>, <<"U+D835",
              "U+DE47", "U+1D647">>, <<"U+D835", "U+DE48", "U+1D648">>, <<"U+D835", "U+DE49",
              "U+1D649">>, <<"U+D835", "U+DE4A", "U+1D64A">>, <<"U+D835", "U+DE4B", "U+1D64B">>,
              <<"U+D835", "U+DE4C", "U+1D64C">>, <<"U+D835", "U+DE4D", "U+1D64D">>, <<"U+D835",
              "U+DE4E", "U+1D64E">>, <<"U+D835", "U+DE4F", "U+1D64F">>, <<"U+D835", "U+DE50",
              "U+1D650">>, <<"U+D835", "U+DE51", "U+1D651">>, <<"U+D835", "U+DE52", "U+1D652">>,
              <<"U+D835", "U+DE53", "U+1D653">>, <<"U+D835", "U+DE54", "U+1D654">>, <<"U+D835",
              "U+DE55", "U+1D655">>, <<"U+D835", "U+DE56", "U+1D656">>, <<"U+D835", "U+DE57",
              "U+1D657">>, <<"U+D835", "U+DE58", "U+1D658">>, <<"U+D835", "U+DE59", "U+1D659">>,
              <<"U+D835", "U+DE5A", "U+1D65A">>, <<"U+D835", "U+DE5B", "U+1D65B">>, <<"U+D835",
              "U+DE5C", "U+1D65C">>, <<"U+D835", "U+DE5D", "U+1D65D">>, <<"U+D835", "U+DE5E",
              "U+1D65E">>, <<"U+D835", "U+DE5F", "U+1D65F">>, <<"U+D835", "U+DE60", "U+1D660">>,
              <<"U+D835", "U+DE61", "U+1D661">>, <<"U+D835", "U+DE62", "U+1D662">>, <<"U+D835",
              "U+DE63", "U+1D663">>, <<"U+D835", "U+DE64", "U+1D664">>, <<"U+D835", "U+DE65",
              "U+1D665">>, <<"U+D835", "U+DE66", "U+1D666">>, <<"U+D835", "U+DE67", "U+1D667">>,
              <<"U+D835", "U+DE68", "U+1D668">>, <<"U+D835", "U+DE69", "U+1D669">>, <<"U+D835",
              "U+DE6A", "U+1D66A">>, <<"U+D835", "U+DE6B", "U+1D66B">>, <<"U+D835", "U+DE6C",
              "U+1D66C">>, <<"U+D835", "U+DE6D", "U+1D66D">>, <<"U+D835", "U+DE6E", "U+1D66E">>,
              <<"U+D835", "U+DE6F", "U+1D66F">>, <<"U+D835", "U+DE70", "U+1D670">>, <<"U+D835",
              "U+DE71", "U+1D671">>, <<"U+D835", "U+DE72", "U+1D672">>, <<"U+D835", "U+DE73",
              "U+1D673">>, <<"U+D835", "U+DE74", "U+1D674">>, <<"U+D835", "U+DE75", "U+1D675">>,
              <<"U+D835", "U+DE76", "U+1D676">>, <<"U+D835", "U+DE77", "U+1D677">>, <<"U+D835",
              "U+DE78", "U+1D678">>, <<"U+D835", "U+DE79", "U+1D679">>, <<"U+D835", "U+DE7A",
              "U+1D67A">>, <<"U+D835", "U+DE7B", "U+1D67B">>, <<"U+D835", "U+DE7C", "U+1D67C">>,
              <<"U+D835", "U+DE7D", "U+1D67D">>, <<"U+D835", "U+DE7E", "U+1D67E">>, <<"U+D835",
              "U+DE7F", "U+1D67F">>, <<"U+D835", "U+DE80", "U+1D680">>, <<"U+D835", "U+DE81",
              "U+1D681">>, <<"U+D835", "U+DE82", "U+1D682">>, <<"U+D835", "U+DE83", "U+1D683">>,
              <<"U+D835", "U+DE84", "U+1D684">>, <<"U+D835", "U+DE85", "U+1D685">>, <<"U+D835",
              "U+DE86", "U+1D686">>, <<"U+D835", "U+DE87", "U+1D687">>, <<"U+D835", "U+DE88",
              "U+1D688">>, <<"U+D835", "U+DE89", "U+1D689">>, <<"U+D835", "U+DE8A", "U+1D68A">>,
              <<"U+D835", "U+DE8B", "U+1D68B">>, <<"U+D835", "U+DE8C", "U+1D68C">>, <<"U+D835",
              "U+DE8D", "U+1D68D">>, <<"U+D835", "U+DE8E", "U+1D68E">>, <<"U+D835", "U+DE8F",
              "U+1D68F">>, <<"U+D835", "U+DE90", "U+1D690">>, <<"U+D835", "U+DE91", "U+1D691">>,
              <<"U+D835", "U+DE92", "U+1D692">>, <<"U+D835", "U+DE93", "U+1D693">>, <<"U+D835",
              "U+DE94", "U+1D694">>, <<"U+D835", "U+DE95", "U+1D695">>, <<"U+D835", "U+DE96",
              "U+1D696">>, <<"U+D835", "U+DE97", "U+1D697">>, <<"U+D835", "U+DE98", "U+1D698">>,
              <<"U+D835", "U+DE99", "U+1D699">>, <<"U+D835", "U+DE9A", "U+1D69A">>, <<"U+D835",
              "U+DE9B", "U+1D69B">>, <<"U+D835", "U+DE9C", "U+1D69C">>, <<"U+D835", "U+DE9D",
              "U+1D69D">>, <<"U+D835", "U+DE9E", "U+1D69E">>, <<"U+D835", "U+DE9F", "U+1D69F">>,
              <<"U+D835", "U+DEA0", "U+1D6A0">>, <<"U+D835", "U+DEA1", "U+1D6A1">>, <<"U+D835",
              "U+DEA2", "U+1D6A2">>, <<"U+D835", "U+DEA3", "U+1D6A3">>, <<"U+D835", "U+DEA4",
              "U+1D6A4">>, <<"U+D835", "U+DEA5", "U+1D6A5">>, <<"U+D835", "U+DEA8", "U+1D6A8">>,
              <<"U+D835", "U+DEA9", "U+1D6A9">>, <<"U+D835", "U+DEAA", "U+1D6AA">>, <<"U+D835",
              "U+DEAB", "U+1D6AB">>, <<"U+D835", "U+DEAC", "U+1D6AC">>, <<"U+D835", "U+DEAD",
              "U+1D6AD">>, <<"U+D835", "U+DEAE", "U+1D6AE">>, <<"U+D835", "U+DEAF", "U+1D6AF">>,
              <<"U+D835", "U+DEB0", "U+1D6B0">>, <<"U+D835", "U+DEB1", "U+1D6B1">>, <<"U+D835",
              "U+DEB2", "U+1D6B2">>, <<"U+D835", "U+DEB3", "U+1D6B3">>, <<"U+D835", "U+DEB4",
              "U+1D6B4">>, <<"U+D835", "U+DEB5", "U+1D6B5">>, <<"U+D835", "U+DEB6", "U+1D6B6">>,
              <<"U+D835", "U+DEB7", "U+1D6B7">>, <<"U+D835", "U+DEB8", "U+1D6B8">>, <<"U+D835",
              "U+DEB9", "U+1D6B9">>, <<"U+D835", "U+DEBA", "U+1D6BA">>, <<"U+D835", "U+DEBB",
              "U+1D6BB">>, <<"U+D835", "U+DEBC", "U+1D6BC">>, <<"U+D835", "U+DEBD", "U+1D6BD">>,
              <<"U+D835", "U+DEBE", "U+1D6BE">>, <<"U+D835", "U+DEBF", "U+1D6BF">>, <<"U+D835",
              "U+DEC0", "U+1D6C0">>, <<"U+D835", "U+DEC2", "U+1D6C2">>, <<"U+D835", "U+DEC3",
              "U+1D6C3">>, <<"U+D835", "U+DEC4", "U+1D6C4">>, <<"U+D835", "U+DEC5", "U+1D6C5">>,
              <<"U+D835", "U+DEC6", "U+1D6C6">>, <<"U+D835", "U+DEC7", "U+1D6C7">>, <<"U+D835",
              "U+DEC8", "U+1D6C8">>, <<"U+D835", "U+DEC9", "U+1D6C9">>, <<"U+D835", "U+DECA",
              "U+1D6CA">>, <<"U+D835", "U+DECB", "U+1D6CB">>, <<"U+D835", "U+DECC", "U+1D6CC">>,
              <<"U+D835", "U+DECD", "U+1D6CD">>, <<"U+D835", "U+DECE", "U+1D6CE">>, <<"U+D835",
              "U+DECF", "U+1D6CF">>, <<"U+D835", "U+DED0", "U+1D6D0">>, <<"U+D835", "U+DED1",
              "U+1D6D1">>, <<"U+D835", "U+DED2", "U+1D6D2">>, <<"U+D835", "U+DED3", "U+1D6D3">>,
              <<"U+D835", "U+DED4", "U+1D6D4">>, <<"U+D835", "U+DED5", "U+1D6D5">>, <<"U+D835",
              "U+DED6", "U+1D6D6">>, <<"U+D835", "U+DED7", "U+1D6D7">>, <<"U+D835", "U+DED8",
              "U+1D6D8">>, <<"U+D835", "U+DED9", "U+1D6D9">>, <<"U+D835", "U+DEDA", "U+1D6DA">>,
              <<"U+D835", "U+DEDC", "U+1D6DC">>, <<"U+D835", "U+DEDD", "U+1D6DD">>, <<"U+D835",
              "U+DEDE", "U+1D6DE">>, <<"U+D835", "U+DEDF", "U+1D6DF">>, <<"U+D835", "U+DEE0",
              "U+1D6E0">>, <<"U+D835", "U+DEE1", "U+1D6E1">>, <<"U+D835", "U+DEE2", "U+1D6E2">>,
              <<"U+D835", "U+DEE3", "U+1D6E3">>, <<"U+D835", "U+DEE4", "U+1D6E4">>, <<"U+D835",
              "U+DEE5", "U+1D6E5">>, <<"U+D835", "U+DEE6", "U+1D6E6">>, <<"U+D835", "U+DEE7",
              "U+1D6E7">>, <<"U+D835", "U+DEE8", "U+1D6E8">>, <<"U+D835", "U+DEE9", "U+1D6E9">>,
              <<"U+D835", "U+DEEA", "U+1D6EA">>, <<"U+D835", "U+DEEB", "U+1D6EB">>, <<"U+D835",
              "U+DEEC", "U+1D6EC">>, <<"U+D835", "U+DEED", "U+1D6ED">>, <<"U+D835", "U+DEEE",
              "U+1D6EE">>, <<"U+D835", "U+DEEF", "U+1D6EF">>, <<"U+D835", "U+DEF0", "U+1D6F0">>,
              <<"U+D835", "U+DEF1", "U+1D6F1">>, <<"U+D835", "U+DEF2", "U+1D6F2">>, <<"U+D835",
              "U+DEF3", "U+1D6F3">>, <<"U+D835", "U+DEF4", "U+1D6F4">>, <<"U+D835", "U+DEF5",
              "U+1D6F5">>, <<"U+D835", "U+DEF6", "U+1D6F6">>, <<"U+D835", "U+DEF7", "U+1D6F7">>,
              <<"U+D835", "U+DEF8", "U+1D6F8">>, <<"U+D835", "U+DEF9", "U+1D6F9">>, <<"U+D835",
              "U+DEFA", "U+1D6FA">>, <<"U+D835", "U+DEFC", "U+1D6FC">>, <<"U+D835", "U+DEFD",
              "U+1D6FD">>, <<"U+D835", "U+DEFE", "U+1D6FE">>, <<"U+D835", "U+DEFF", "U+1D6FF">>,
              <<"U+D835", "U+DF00", "U+1D700">>, <<"U+D835", "U+DF01", "U+1D701">>, <<"U+D835",
              "U+DF02", "U+1D702">>, <<"U+D835", "U+DF03", "U+1D703">>, <<"U+D835", "U+DF04",
              "U+1D704">>, <<"U+D835", "U+DF05", "U+1D705">>, <<"U+D835", "U+DF06", "U+1D706">>,
              <<"U+D835", "U+DF07", "U+1D707">>, <<"U+D835", "U+DF08", "U+1D708">>, <<"U+D835",
              "U+DF09", "U+1D709">>, <<"U+D835", "U+DF0A", "U+1D70A">>, <<"U+D835", "U+DF0B",
              "U+1D70B">>, <<"U+D835", "U+DF0C", "U+1D70C">>, <<"U+D835", "U+DF0D", "U+1D70D">>,
              <<"U+D835", "U+DF0E", "U+1D70E">>, <<"U+D835", "U+DF0F", "U+1D70F">>, <<"U+D835",
              "U+DF10", "U+1D710">>, <<"U+D835", "U+DF11", "U+1D711">>, <<"U+D835", "U+DF12",
              "U+1D712">>, <<"U+D835", "U+DF13", "U+1D713">>, <<"U+D835", "U+DF14", "U+1D714">>,
              <<"U+D835", "U+DF16", "U+1D716">>, <<"U+D835", "U+DF17", "U+1D717">>, <<"U+D835",
              "U+DF18", "U+1D718">>, <<"U+D835", "U+DF19", "U+1D719">>, <<"U+D835", "U+DF1A",
              "U+1D71A">>, <<"U+D835", "U+DF1B", "U+1D71B">>, <<"U+D835", "U+DF1C", "U+1D71C">>,
              <<"U+D835", "U+DF1D", "U+1D71D">>, <<"U+D835", "U+DF1E", "U+1D71E">>, <<"U+D835",
              "U+DF1F", "U+1D71F">>, <<"U+D835", "U+DF20", "U+1D720">>, <<"U+D835", "U+DF21",
              "U+1D721">>, <<"U+D835", "U+DF22", "U+1D722">>, <<"U+D835", "U+DF23", "U+1D723">>,
              <<"U+D835", "U+DF24", "U+1D724">>, <<"U+D835", "U+DF25", "U+1D725">>, <<"U+D835",
              "U+DF26", "U+1D726">>, <<"U+D835", "U+DF27", "U+1D727">>, <<"U+D835", "U+DF28",
              "U+1D728">>, <<"U+D835", "U+DF29", "U+1D729">>, <<"U+D835", "U+DF2A", "U+1D72A">>,
              <<"U+D835", "U+DF2B", "U+1D72B">>, <<"U+D835", "U+DF2C", "U+1D72C">>, <<"U+D835",
              "U+DF2D", "U+1D72D">>, <<"U+D835", "U+DF2E", "U+1D72E">>, <<"U+D835", "U+DF2F",
              "U+1D72F">>, <<"U+D835", "U+DF30", "U+1D730">>, <<"U+D835", "U+DF31", "U+1D731">>,
              <<"U+D835", "U+DF32", "U+1D732">>, <<"U+D835", "U+DF33", "U+1D733">>, <<"U+D835",
              "U+DF34", "U+1D734">>, <<"U+D835", "U+DF36", "U+1D736">>, <<"U+D835", "U+DF37",
              "U+1D737">>, <<"U+D835", "U+DF38", "U+1D738">>, <<"U+D835", "U+DF39", "U+1D739">>,
              <<"U+D835", "U+DF3A", "U+1D73A">>, <<"U+D835", "U+DF3B", "U+1D73B">>, <<"U+D835",
              "U+DF3C", "U+1D73C">>, <<"U+D835", "U+DF3D", "U+1D73D">>, <<"U+D835", "U+DF3E",
              "U+1D73E">>, <<"U+D835", "U+DF3F", "U+1D73F">>, <<"U+D835", "U+DF40", "U+1D740">>,
              <<"U+D835", "U+DF41", "U+1D741">>, <<"U+D835", "U+DF42", "U+1D742">>, <<"U+D835",
              "U+DF43", "U+1D743">>, <<"U+D835", "U+DF44", "U+1D744">>, <<"U+D835", "U+DF45",
              "U+1D745">>, <<"U+D835", "U+DF46", "U+1D746">>, <<"U+D835", "U+DF47", "U+1D747">>,
              <<"U+D835", "U+DF48", "U+1D748">>, <<"U+D835", "U+DF49", "U+1D749">>, <<"U+D835",
              "U+DF4A", "U+1D74A">>, <<"U+D835", "U+DF4B", "U+1D74B">>, <<"U+D835", "U+DF4C",
              "U+1D74C">>, <<"U+D835", "U+DF4D", "U+1D74D">>, <<"U+D835", "U+DF4E", "U+1D74E">>,
              <<"U+D835", "U+DF50", "U+1D750">>, <<"U+D835", "U+DF51", "U+1D751">>, <<"U+D835",
              "U+DF52", "U+1D752">>, <<"U+D835", "U+DF53", "U+1D753">>, <<"U+D835", "U+DF54",
              "U+1D754">>, <<"U+D835", "U+DF55", "U+1D755">>, <<"U+D835", "U+DF56", "U+1D756">>,
              <<"U+D835", "U+DF57", "U+1D757">>, <<"U+D835", "U+DF58", "U+1D758">>, <<"U+D835",
              "U+DF59", "U+1D759">>, <<"U+D835", "U+DF5A", "U+1D75A">>, <<"U+D835", "U+DF5B",
              "U+1D75B">>, <<"U+D835", "U+DF5C", "U+1D75C">>, <<"U+D835", "U+DF5D", "U+1D75D">>,
              <<"U+D835", "U+DF5E", "U+1D75E">>, <<"U+D835", "U+DF5F", "U+1D75F">>, <<"U+D835",
              "U+DF60", "U+1D760">>, <<"U+D835", "U+DF61", "U+1D761">>, <<"U+D835", "U+DF62",
              "U+1D762">>, <<"U+D835", "U+DF63", "U+1D763">>, <<"U+D835", "U+DF64", "U+1D764">>,
              <<"U+D835", "U+DF65", "U+1D765">>, <<"U+D835", "U+DF66", "U+1D766">>, <<"U+D835",
              "U+DF67", "U+1D767">>, <<"U+D835", "U+DF68", "U+1D768">>, <<"U+D835", "U+DF69",
              "U+1D769">>, <<"U+D835", "U+DF6A", "U+1D76A">>, <<"U+D835", "U+DF6B", "U+1D76B">>,
              <<"U+D835", "U+DF6C", "U+1D76C">>, <<"U+D835", "U+DF6D", "U+1D76D">>, <<"U+D835",
              "U+DF6E", "U+1D76E">>, <<"U+D835", "U+DF70", "U+1D770">>, <<"U+D835", "U+DF71",
              "U+1D771">>, <<"U+D835", "U+DF72", "U+1D772">>, <<"U+D835", "U+DF73", "U+1D773">>,
              <<"U+D835", "U+DF74", "U+1D774">>, <<"U+D835", "U+DF75", "U+1D775">>, <<"U+D835",
              "U+DF76", "U+1D776">>, <<"U+D835", "U+DF77", "U+1D777">>, <<"U+D835", "U+DF78",
              "U+1D778">>, <<"U+D835", "U+DF79", "U+1D779">>, <<"U+D835", "U+DF7A", "U+1D77A">>,
              <<"U+D835", "U+DF7B", "U+1D77B">>, <<"U+D835", "U+DF7C", "U+1D77C">>, <<"U+D835",
              "U+DF7D", "U+1D77D">>, <<"U+D835", "U+DF7E", "U+1D77E">>, <<"U+D835", "U+DF7F",
              "U+1D77F">>, <<"U+D835", "U+DF80", "U+1D780">>, <<"U+D835", "U+DF81", "U+1D781">>,
              <<"U+D835", "U+DF82", "U+1D782">>, <<"U+D835", "U+DF83", "U+1D783">>, <<"U+D835",
              "U+DF84", "U+1D784">>, <<"U+D835", "U+DF85", "U+1D785">>, <<"U+D835", "U+DF86",
              "U+1D786">>, <<"U+D835", "U+DF87", "U+1D787">>, <<"U+D835", "U+DF88", "U+1D788">>,
              <<"U+D835", "U+DF8A", "U+1D78A">>, <<"U+D835", "U+DF8B", "U+1D78B">>, <<"U+D835",
              "U+DF8C", "U+1D78C">>, <<"U+D835", "U+DF8D", "U+1D78D">>, <<"U+D835", "U+DF8E",
              "U+1D78E">>, <<"U+D835", "U+DF8F", "U+1D78F">>, <<"U+D835", "U+DF90", "U+1D790">>,
              <<"U+D835", "U+DF91", "U+1D791">>, <<"U+D835", "U+DF92", "U+1D792">>, <<"U+D835",
              "U+DF93", "U+1D793">>, <<"U+D835", "U+DF94", "U+1D794">>, <<"U+D835", "U+DF95",
              "U+1D795">>, <<"U+D835", "U+DF96", "U+1D796">>, <<"U+D835", "U+DF97", "U+1D797">>,
              <<"U+D835", "U+DF98", "U+1D798">>, <<"U+D835", "U+DF99", "U+1D799">>, <<"U+D835",
              "U+DF9A", "U+1D79A">>, <<"U+D835", "U+DF9B", "U+1D79B">>, <<"U+D835", "U+DF9C",
              "U+1D79C">>, <<"U+D835", "U+DF9D", "U+1D79D">>, <<"U+D835", "U+DF9E", "U+1D79E">>,
              <<"U+D835", "U+DF9F", "U+1D79F">>, <<"U+D835", "U+DFA0", "U+1D7A0">>, <<"U+D835",
              "U+DFA1", "U+1D7A1">>, <<"U+D835", "U+DFA2", "U+1D7A2">>, <<"U+D835", "U+DFA3",
              "U+1D7A3">>, <<"U+D835", "U+DFA4", "U+1D7A4">>, <<"U+D835", "U+DFA5", "U+1D7A5">>,
              <<"U+D835", "U+DFA6", "U+1D7A6">>, <<"U+D835", "U+DFA7", "U+1D7A7">>, <<"U+D835",
              "U+DFA8", "U+1D7A8">>, <<"U+D835", "U+DFAA", "U+1D7AA">>, <<"U+D835", "U+DFAB",
              "U+1D7AB">>, <<"U+D835", "U+DFAC", "U+1D7AC">>, <<"U+D835", "U+DFAD", "U+1D7AD">>,
              <<"U+D835", "U+DFAE", "U+1D7AE">>, <<"U+D835", "U+DFAF", "U+1D7AF">>, <<"U+D835",
              "U+DFB0", "U+1D7B0">>, <<"U+D835", "U+DFB1", "U+1D7B1">>, <<"U+D835", "U+DFB2",
              "U+1D7B2">>, <<"U+D835", "U+DFB3", "U+1D7B3">>, <<"U+D835", "U+DFB4", "U+1D7B4">>,
              <<"U+D835", "U+DFB5", "U+1D7B5">>, <<"U+D835", "U+DFB6", "U+1D7B6">>, <<"U+D835",
              "U+DFB7", "U+1D7B7">>, <<"U+D835", "U+DFB8", "U+1D7B8">>, <<"U+D835", "U+DFB9",
              "U+1D7B9">>, <<"U+D835", "U+DFBA", "U+1D7BA">>, <<"U+D835", "U+DFBB", "U+1D7BB">>,
              <<"U+D835", "U+DFBC", "U+1D7BC">>, <<"U+D835", "U+DFBD", "U+1D7BD">>, <<"U+D835",
              "U+DFBE", "U+1D7BE">>, <<"U+D835", "U+DFBF", "U+1D7BF">>, <<"U+D835", "U+DFC0",
              "U+1D7C0">>, <<"U+D835", "U+DFC1", "U+1D7C1">>, <<"U+D835", "U+DFC2", "U+1D7C2">>,
              <<"U+D835", "U+DFC4", "U+1D7C4">>, <<"U+D835", "U+DFC5", "U+1D7C5">>, <<"U+D835",
              "U+DFC6", "U+1D7C6">>, <<"U+D835", "U+DFC7", "U+1D7C7">>, <<"U+D835", "U+DFC8",
              "U+1D7C8">>, <<"U+D835", "U+DFC9", "U+1D7C9">>, <<"U+D835", "U+DFCA", "U+1D7CA">>,
              <<"U+D835", "U+DFCB", "U+1D7CB">>, <<"U+D836", "U+DE00", "U+1DA00">>, <<"U+D836",
              "U+DE01", "U+1DA01">>, <<"U+D836", "U+DE02", "U+1DA02">>, <<"U+D836", "U+DE03",
              "U+1DA03">>, <<"U+D836", "U+DE04", "U+1DA04">>, <<"U+D836", "U+DE05", "U+1DA05">>,
              <<"U+D836", "U+DE06", "U+1DA06">>, <<"U+D836", "U+DE07", "U+1DA07">>, <<"U+D836",
              "U+DE08", "U+1DA08">>, <<"U+D836", "U+DE09", "U+1DA09">>, <<"U+D836", "U+DE0A",
              "U+1DA0A">>, <<"U+D836", "U+DE0B", "U+1DA0B">>, <<"U+D836", "U+DE0C", "U+1DA0C">>,
              <<"U+D836", "U+DE0D", "U+1DA0D">>, <<"U+D836", "U+DE0E", "U+1DA0E">>, <<"U+D836",
              "U+DE0F", "U+1DA0F">>, <<"U+D836", "U+DE10", "U+1DA10">>, <<"U+D836", "U+DE11",
              "U+1DA11">>, <<"U+D836", "U+DE12", "U+1DA12">>, <<"U+D836", "U+DE13", "U+1DA13">>,
              <<"U+D836", "U+DE14", "U+1DA14">>, <<"U+D836", "U+DE15", "U+1DA15">>, <<"U+D836",
              "U+DE16", "U+1DA16">>, <<"U+D836", "U+DE17", "U+1DA17">>, <<"U+D836", "U+DE18",
              "U+1DA18">>, <<"U+D836", "U+DE19", "U+1DA19">>, <<"U+D836", "U+DE1A", "U+1DA1A">>,
              <<"U+D836", "U+DE1B", "U+1DA1B">>, <<"U+D836", "U+DE1C", "U+1DA1C">>, <<"U+D836",
              "U+DE1D", "U+1DA1D">>, <<"U+D836", "U+DE1E", "U+1DA1E">>, <<"U+D836", "U+DE1F",
              "U+1DA1F">>, <<"U+D836", "U+DE20", "U+1DA20">>, <<"U+D836", "U+DE21", "U+1DA21">>,
              <<"U+D836", "U+DE22", "U+1DA22">>, <<"U+D836", "U+DE23", "U+1DA23">>, <<"U+D836",
              "U+DE24", "U+1DA24">>, <<"U+D836", "U+DE25", "U+1DA25">>, <<"U+D836", "U+DE26",
              "U+1DA26">>, <<"U+D836", "U+DE27", "U+1DA27">>, <<"U+D836", "U+DE28", "U+1DA28">>,
              <<"U+D836", "U+DE29", "U+1DA29">>, <<"U+D836", "U+DE2A", "U+1DA2A">>, <<"U+D836",
              "U+DE2B", "U+1DA2B">>, <<"U+D836", "U+DE2C", "U+1DA2C">>, <<"U+D836", "U+DE2D",
              "U+1DA2D">>, <<"U+D836", "U+DE2E", "U+1DA2E">>, <<"U+D836", "U+DE2F", "U+1DA2F">>,
              <<"U+D836", "U+DE30", "U+1DA30">>, <<"U+D836", "U+DE31", "U+1DA31">>, <<"U+D836",
              "U+DE32", "U+1DA32">>, <<"U+D836", "U+DE33", "U+1DA33">>, <<"U+D836", "U+DE34",
              "U+1DA34">>, <<"U+D836", "U+DE35", "U+1DA35">>, <<"U+D836", "U+DE36", "U+1DA36">>,
              <<"U+D836", "U+DE3B", "U+1DA3B">>, <<"U+D836", "U+DE3C", "U+1DA3C">>, <<"U+D836",
              "U+DE3D", "U+1DA3D">>, <<"U+D836", "U+DE3E", "U+1DA3E">>, <<"U+D836", "U+DE3F",
              "U+1DA3F">>, <<"U+D836", "U+DE40", "U+1DA40">>, <<"U+D836", "U+DE41", "U+1DA41">>,
              <<"U+D836", "U+DE42", "U+1DA42">>, <<"U+D836", "U+DE43", "U+1DA43">>, <<"U+D836",
              "U+DE44", "U+1DA44">>, <<"U+D836", "U+DE45", "U+1DA45">>, <<"U+D836", "U+DE46",
              "U+1DA46">>, <<"U+D836", "U+DE47", "U+1DA47">>, <<"U+D836", "U+DE48", "U+1DA48">>,
              <<"U+D836", "U+DE49", "U+1DA49">>, <<"U+D836", "U+DE4A", "U+1DA4A">>, <<"U+D836",
              "U+DE4B", "U+1DA4B">>, <<"U+D836", "U+DE4C", "U+1DA4C">>, <<"U+D836", "U+DE4D",
              "U+1DA4D">>, <<"U+D836", "U+DE4E", "U+1DA4E">>, <<"U+D836", "U+DE4F", "U+1DA4F">>,
              <<"U+D836", "U+DE50", "U+1DA50">>, <<"U+D836", "U+DE51", "U+1DA51">>, <<"U+D836",
              "U+DE52", "U+1DA52">>, <<"U+D836", "U+DE53", "U+1DA53">>, <<"U+D836", "U+DE54",
              "U+1DA54">>, <<"U+D836", "U+DE55", "U+1DA55">>, <<"U+D836", "U+DE56", "U+1DA56">>,
              <<"U+D836", "U+DE57", "U+1DA57">>, <<"U+D836", "U+DE58", "U+1DA58">>, <<"U+D836",
              "U+DE59", "U+1DA59">>, <<"U+D836", "U+DE5A", "U+1DA5A">>, <<"U+D836", "U+DE5B",
              "U+1DA5B">>, <<"U+D836", "U+DE5C", "U+1DA5C">>, <<"U+D836", "U+DE5D", "U+1DA5D">>,
              <<"U+D836", "U+DE5E", "U+1DA5E">>, <<"U+D836", "U+DE5F", "U+1DA5F">>, <<"U+D836",
              "U+DE60", "U+1DA60">>, <<"U+D836", "U+DE61", "U+1DA61">>, <<"U+D836", "U+DE62",
              "U+1DA62">>, <<"U+D836", "U+DE63", "U+1DA63">>, <<"U+D836", "U+DE64", "U+1DA64">>,
              <<"U+D836", "U+DE65", "U+1DA65">>, <<"U+D836", "U+DE66", "U+1DA66">>, <<"U+D836",
              "U+DE67", "U+1DA67">>, <<"U+D836", "U+DE68", "U+1DA68">>, <<"U+D836", "U+DE69",
              "U+1DA69">>, <<"U+D836", "U+DE6A", "U+1DA6A">>, <<"U+D836", "U+DE6B", "U+1DA6B">>,
              <<"U+D836", "U+DE6C", "U+1DA6C">>, <<"U+D836", "U+DE75", "U+1DA75">>, <<"U+D836",
              "U+DE84", "U+1DA84">>, <<"U+D836", "U+DE9B", "U+1DA9B">>, <<"U+D836", "U+DE9C",
              "U+1DA9C">>, <<"U+D836", "U+DE9D", "U+1DA9D">>, <<"U+D836", "U+DE9E", "U+1DA9E">>,
              <<"U+D836", "U+DE9F", "U+1DA9F">>, <<"U+D836", "U+DEA1", "U+1DAA1">>, <<"U+D836",
              "U+DEA2", "U+1DAA2">>, <<"U+D836", "U+DEA3", "U+1DAA3">>, <<"U+D836", "U+DEA4",
              "U+1DAA4">>, <<"U+D836", "U+DEA5", "U+1DAA5">>, <<"U+D836", "U+DEA6", "U+1DAA6">>,
              <<"U+D836", "U+DEA7", "U+1DAA7">>, <<"U+D836", "U+DEA8", "U+1DAA8">>, <<"U+D836",
              "U+DEA9", "U+1DAA9">>, <<"U+D836", "U+DEAA", "U+1DAAA">>, <<"U+D836", "U+DEAB",
              "U+1DAAB">>, <<"U+D836", "U+DEAC", "U+1DAAC">>, <<"U+D836", "U+DEAD", "U+1DAAD">>,
              <<"U+D836", "U+DEAE", "U+1DAAE">>, <<"U+D836", "U+DEAF", "U+1DAAF">>, <<"U+D837",
              "U+DF00", "U+1DF00">>, <<"U+D837", "U+DF01", "U+1DF01">>, <<"U+D837", "U+DF02",
              "U+1DF02">>, <<"U+D837", "U+DF03", "U+1DF03">>, <<"U+D837", "U+DF04", "U+1DF04">>,
              <<"U+D837", "U+DF05", "U+1DF05">>, <<"U+D837", "U+DF06", "U+1DF06">>, <<"U+D837",
              "U+DF07", "U+1DF07">>, <<"U+D837", "U+DF08", "U+1DF08">>, <<"U+D837", "U+DF09",
              "U+1DF09">>, <<"U+D837", "U+DF0B", "U+1DF0B">>, <<"U+D837", "U+DF0C", "U+1DF0C">>,
              <<"U+D837", "U+DF0D", "U+1DF0D">>, <<"U+D837", "U+DF0E", "U+1DF0E">>, <<"U+D837",
              "U+DF0F", "U+1DF0F">>, <<"U+D837", "U+DF10", "U+1DF10">>, <<"U+D837", "U+DF11",
              "U+1DF11">>, <<"U+D837", "U+DF12", "U+1DF12">>, <<"U+D837", "U+DF13", "U+1DF13">>,
              <<"U+D837", "U+DF14", "U+1DF14">>, <<"U+D837", "U+DF15", "U+1DF15">>, <<"U+D837",
              "U+DF16", "U+1DF16">>, <<"U+D837", "U+DF17", "U+1DF17">>, <<"U+D837", "U+DF18",
              "U+1DF18">>, <<"U+D837", "U+DF19", "U+1DF19">>, <<"U+D837", "U+DF1A", "U+1DF1A">>,
              <<"U+D837", "U+DF1B", "U+1DF1B">>, <<"U+D837", "U+DF1C", "U+1DF1C">>, <<"U+D837",
              "U+DF1D", "U+1DF1D">>, <<"U+D837", "U+DF1E", "U+1DF1E">>, <<"U+D837", "U+DF25",
              "U+1DF25">>, <<"U+D837", "U+DF26", "U+1DF26">>, <<"U+D837", "U+DF27", "U+1DF27">>,
              <<"U+D837", "U+DF28", "U+1DF28">>, <<"U+D837", "U+DF29", "U+1DF29">>, <<"U+D837",
              "U+DF2A", "U+1DF2A">>, <<"U+D838", "U+DC00", "U+1E000">>, <<"U+D838", "U+DC01",
              "U+1E001">>, <<"U+D838", "U+DC02", "U+1E002">>, <<"U+D838", "U+DC03", "U+1E003">>,
              <<"U+D838", "U+DC04", "U+1E004">>, <<"U+D838", "U+DC05", "U+1E005">>, <<"U+D838",
              "U+DC06", "U+1E006">>, <<"U+D838", "U+DC08", "U+1E008">>, <<"U+D838", "U+DC09",
              "U+1E009">>, <<"U+D838", "U+DC0A", "U+1E00A">>, <<"U+D838", "U+DC0B", "U+1E00B">>,
              <<"U+D838", "U+DC0C", "U+1E00C">>, <<"U+D838", "U+DC0D", "U+1E00D">>, <<"U+D838",
              "U+DC0E", "U+1E00E">>, <<"U+D838", "U+DC0F", "U+1E00F">>, <<"U+D838", "U+DC10",
              "U+1E010">>, <<"U+D838", "U+DC11", "U+1E011">>, <<"U+D838", "U+DC12", "U+1E012">>,
              <<"U+D838", "U+DC13", "U+1E013">>, <<"U+D838", "U+DC14", "U+1E014">>, <<"U+D838",
              "U+DC15", "U+1E015">>, <<"U+D838", "U+DC16", "U+1E016">>, <<"U+D838", "U+DC17",
              "U+1E017">>, <<"U+D838", "U+DC18", "U+1E018">>, <<"U+D838", "U+DC1B", "U+1E01B">>,
              <<"U+D838", "U+DC1C", "U+1E01C">>, <<"U+D838", "U+DC1D", "U+1E01D">>, <<"U+D838",
              "U+DC1E", "U+1E01E">>, <<"U+D838", "U+DC1F", "U+1E01F">>, <<"U+D838", "U+DC20",
              "U+1E020">>, <<"U+D838", "U+DC21", "U+1E021">>, <<"U+D838", "U+DC23", "U+1E023">>,
              <<"U+D838", "U+DC24", "U+1E024">>, <<"U+D838", "U+DC26", "U+1E026">>, <<"U+D838",
              "U+DC27", "U+1E027">>, <<"U+D838", "U+DC28", "U+1E028">>, <<"U+D838", "U+DC29",
              "U+1E029">>, <<"U+D838", "U+DC2A", "U+1E02A">>, <<"U+D838", "U+DC30", "U+1E030">>,
              <<"U+D838", "U+DC31", "U+1E031">>, <<"U+D838", "U+DC32", "U+1E032">>, <<"U+D838",
              "U+DC33", "U+1E033">>, <<"U+D838", "U+DC34", "U+1E034">>, <<"U+D838", "U+DC35",
              "U+1E035">>, <<"U+D838", "U+DC36", "U+1E036">>, <<"U+D838", "U+DC37", "U+1E037">>,
              <<"U+D838", "U+DC38", "U+1E038">>, <<"U+D838", "U+DC39", "U+1E039">>, <<"U+D838",
              "U+DC3A", "U+1E03A">>, <<"U+D838", "U+DC3B", "U+1E03B">>, <<"U+D838", "U+DC3C",
              "U+1E03C">>, <<"U+D838", "U+DC3D", "U+1E03D">>, <<"U+D838", "U+DC3E", "U+1E03E">>,
              <<"U+D838", "U+DC3F", "U+1E03F">>, <<"U+D838", "U+DC40", "U+1E040">>, <<"U+D838",
              "U+DC41", "U+1E041">>, <<"U+D838", "U+DC42", "U+1E042">>, <<"U+D838", "U+DC43",
              "U+1E043">>, <<"U+D838", "U+DC44", "U+1E044">>, <<"U+D838", "U+DC45", "U+1E045">>,
              <<"U+D838", "U+DC46", "U+1E046">>, <<"U+D838", "U+DC47", "U+1E047">>, <<"U+D838",
              "U+DC48", "U+1E048">>, <<"U+D838", "U+DC49", "U+1E049">>, <<"U+D838", "U+DC4A",
              "U+1E04A">>, <<"U+D838", "U+DC4B", "U+1E04B">>, <<"U+D838", "U+DC4C", "U+1E04C">>,
              <<"U+D838", "U+DC4D", "U+1E04D">>, <<"U+D838", "U+DC4E", "U+1E04E">>, <<"U+D838",
              "U+DC4F", "U+1E04F">>, <<"U+D838", "U+DC50", "U+1E050">>, <<"U+D838", "U+DC51",
              "U+1E051">>, <<"U+D838", "U+DC52", "U+1E052">>, <<"U+D838", "U+DC53", "U+1E053">>,
              <<"U+D838", "U+DC54", "U+1E054">>, <<"U+D838", "U+DC55", "U+1E055">>, <<"U+D838",
              "U+DC56", "U+1E056">>, <<"U+D838", "U+DC57", "U+1E057">>, <<"U+D838", "U+DC58",
              "U+1E058">>, <<"U+D838", "U+DC59", "U+1E059">>, <<"U+D838", "U+DC5A", "U+1E05A">>,
              <<"U+D838", "U+DC5B", "U+1E05B">>, <<"U+D838", "U+DC5C", "U+1E05C">>, <<"U+D838",
              "U+DC5D", "U+1E05D">>, <<"U+D838", "U+DC5E", "U+1E05E">>, <<"U+D838", "U+DC5F",
              "U+1E05F">>, <<"U+D838", "U+DC60", "U+1E060">>, <<"U+D838", "U+DC61", "U+1E061">>,
              <<"U+D838", "U+DC62", "U+1E062">>, <<"U+D838", "U+DC63", "U+1E063">>, <<"U+D838",
              "U+DC64", "U+1E064">>, <<"U+D838", "U+DC65", "U+1E065">>, <<"U+D838", "U+DC66",
              "U+1E066">>, <<"U+D838", "U+DC67", "U+1E067">>, <<"U+D838", "U+DC68", "U+1E068">>,
              <<"U+D838", "U+DC69", "U+1E069">>, <<"U+D838", "U+DC6A", "U+1E06A">>, <<"U+D838",
              "U+DC6B", "U+1E06B">>, <<"U+D838", "U+DC6C", "U+1E06C">>, <<"U+D838", "U+DC6D",
              "U+1E06D">>, <<"U+D838", "U+DC8F", "U+1E08F">>, <<"U+D838", "U+DD30", "U+1E130">>,
              <<"U+D838", "U+DD31", "U+1E131">>, <<"U+D838", "U+DD32", "U+1E132">>, <<"U+D838",
              "U+DD33", "U+1E133">>, <<"U+D838", "U+DD34", "U+1E134">>, <<"U+D838", "U+DD35",
              "U+1E135">>, <<"U+D838", "U+DD36", "U+1E136">>, <<"U+D838", "U+DD37", "U+1E137">>,
              <<"U+D838", "U+DD38", "U+1E138">>, <<"U+D838", "U+DD39", "U+1E139">>, <<"U+D838",
              "U+DD3A", "U+1E13A">>, <<"U+D838", "U+DD3B", "U+1E13B">>, <<"U+D838", "U+DD3C",
              "U+1E13C">>, <<"U+D838", "U+DD3D", "U+1E13D">>, <<"U+D838", "U+DEAE", "U+1E2AE">>,
              <<"U+D838", "U+DEEC", "U+1E2EC">>, <<"U+D838", "U+DEED", "U+1E2ED">>, <<"U+D838",
              "U+DEEE", "U+1E2EE">>, <<"U+D838", "U+DEEF", "U+1E2EF">>, <<"U+D839", "U+DCEB",
              "U+1E4EB">>, <<"U+D839", "U+DCEC", "U+1E4EC">>, <<"U+D839", "U+DCED", "U+1E4ED">>,
              <<"U+D839", "U+DCEE", "U+1E4EE">>, <<"U+D839", "U+DCEF", "U+1E4EF">>, <<"U+D839",
              "U+DDEE", "U+1E5EE">>, <<"U+D839", "U+DDEF", "U+1E5EF">>, <<"U+D839", "U+DEE3",
              "U+1E6E3">>, <<"U+D839", "U+DEE6", "U+1E6E6">>, <<"U+D839", "U+DEEE", "U+1E6EE">>,
              <<"U+D839", "U+DEEF", "U+1E6EF">>, <<"U+D839", "U+DEF5", "U+1E6F5">>, <<"U+D839",
              "U+DEFF", "U+1E6FF">>, <<"U+D83A", "U+DCD0", "U+1E8D0">>, <<"U+D83A", "U+DCD1",
              "U+1E8D1">>, <<"U+D83A", "U+DCD2", "U+1E8D2">>, <<"U+D83A", "U+DCD3", "U+1E8D3">>,
              <<"U+D83A", "U+DCD4", "U+1E8D4">>, <<"U+D83A", "U+DCD5", "U+1E8D5">>, <<"U+D83A",
              "U+DCD6", "U+1E8D6">>, <<"U+D83A", "U+DD00", "U+1E900">>, <<"U+D83A", "U+DD01",
              "U+1E901">>, <<"U+D83A", "U+DD02", "U+1E902">>, <<"U+D83A", "U+DD03", "U+1E903">>,
              <<"U+D83A", "U+DD04", "U+1E904">>, <<"U+D83A", "U+DD05", "U+1E905">>, <<"U+D83A",
              "U+DD06", "U+1E906">>, <<"U+D83A", "U+DD07", "U+1E907">>, <<"U+D83A", "U+DD08",
              "U+1E908">>, <<"U+D83A", "U+DD09", "U+1E909">>, <<"U+D83A", "U+DD0A", "U+1E90A">>,
              <<"U+D83A", "U+DD0B", "U+1E90B">>, <<"U+D83A", "U+DD0C", "U+1E90C">>, <<"U+D83A",
              "U+DD0D", "U+1E90D">>, <<"U+D83A", "U+DD0E", "U+1E90E">>, <<"U+D83A", "U+DD0F",
              "U+1E90F">>, <<"U+D83A", "U+DD10", "U+1E910">>, <<"U+D83A", "U+DD11", "U+1E911">>,
              <<"U+D83A", "U+DD12", "U+1E912">>, <<"U+D83A", "U+DD13", "U+1E913">>, <<"U+D83A",
              "U+DD14", "U+1E914">>, <<"U+D83A", "U+DD15", "U+1E915">>, <<"U+D83A", "U+DD16",
              "U+1E916">>, <<"U+D83A", "U+DD17", "U+1E917">>, <<"U+D83A", "U+DD18", "U+1E918">>,
              <<"U+D83A", "U+DD19", "U+1E919">>, <<"U+D83A", "U+DD1A", "U+1E91A">>, <<"U+D83A",
              "U+DD1B", "U+1E91B">>, <<"U+D83A", "U+DD1C", "U+1E91C">>, <<"U+D83A", "U+DD1D",
              "U+1E91D">>, <<"U+D83A", "U+DD1E", "U+1E91E">>, <<"U+D83A", "U+DD1F", "U+1E91F">>,
              <<"U+D83A", "U+DD20", "U+1E920">>, <<"U+D83A", "U+DD21", "U+1E921">>, <<"U+D83A",
              "U+DD22", "U+1E922">>, <<"U+D83A", "U+DD23", "U+1E923">>, <<"U+D83A", "U+DD24",
              "U+1E924">>, <<"U+D83A", "U+DD25", "U+1E925">>, <<"U+D83A", "U+DD26", "U+1E926">>,
              <<"U+D83A", "U+DD27", "U+1E927">>, <<"U+D83A", "U+DD28", "U+1E928">>, <<"U+D83A",
              "U+DD29", "U+1E929">>, <<"U+D83A", "U+DD2A", "U+1E92A">>, <<"U+D83A", "U+DD2B",
              "U+1E92B">>, <<"U+D83A", "U+DD2C", "U+1E92C">>, <<"U+D83A", "U+DD2D", "U+1E92D">>,
              <<"U+D83A", "U+DD2E", "U+1E92E">>, <<"U+D83A", "U+DD2F", "U+1E92F">>, <<"U+D83A",
              "U+DD30", "U+1E930">>, <<"U+D83A", "U+DD31", "U+1E931">>, <<"U+D83A", "U+DD32",
              "U+1E932">>, <<"U+D83A", "U+DD33", "U+1E933">>, <<"U+D83A", "U+DD34", "U+1E934">>,
              <<"U+D83A", "U+DD35", "U+1E935">>, <<"U+D83A", "U+DD36", "U+1E936">>, <<"U+D83A",
              "U+DD37", "U+1E937">>, <<"U+D83A", "U+DD38", "U+1E938">>, <<"U+D83A", "U+DD39",
              "U+1E939">>, <<"U+D83A", "U+DD3A", "U+1E93A">>, <<"U+D83A", "U+DD3B", "U+1E93B">>,
              <<"U+D83A", "U+DD3C", "U+1E93C">>, <<"U+D83A", "U+DD3D", "U+1E93D">>, <<"U+D83A",
              "U+DD3E", "U+1E93E">>, <<"U+D83A", "U+DD3F", "U+1E93F">>, <<"U+D83A", "U+DD40",
              "U+1E940">>, <<"U+D83A", "U+DD41", "U+1E941">>, <<"U+D83A", "U+DD42", "U+1E942">>,
              <<"U+D83A", "U+DD43", "U+1E943">>, <<"U+D83A", "U+DD44", "U+1E944">>, <<"U+D83A",
              "U+DD45", "U+1E945">>, <<"U+D83A", "U+DD46", "U+1E946">>, <<"U+D83A", "U+DD47",
              "U+1E947">>, <<"U+D83A", "U+DD48", "U+1E948">>, <<"U+D83A", "U+DD49", "U+1E949">>,
              <<"U+D83A", "U+DD4A", "U+1E94A">>, <<"U+D83A", "U+DD4B", "U+1E94B">>, <<"U+D83C",
              "U+DD30", "U+1F130">>, <<"U+D83C", "U+DD31", "U+1F131">>, <<"U+D83C", "U+DD32",
              "U+1F132">>, <<"U+D83C", "U+DD33", "U+1F133">>, <<"U+D83C", "U+DD34", "U+1F134">>,
              <<"U+D83C", "U+DD35", "U+1F135">>, <<"U+D83C", "U+DD36", "U+1F136">>, <<"U+D83C",
              "U+DD37", "U+1F137">>, <<"U+D83C", "U+DD38", "U+1F138">>, <<"U+D83C", "U+DD39",
              "U+1F139">>, <<"U+D83C", "U+DD3A", "U+1F13A">>, <<"U+D83C", "U+DD3B", "U+1F13B">>,
              <<"U+D83C", "U+DD3C", "U+1F13C">>, <<"U+D83C", "U+DD3D", "U+1F13D">>, <<"U+D83C",
              "U+DD3E", "U+1F13E">>, <<"U+D83C", "U+DD3F", "U+1F13F">>, <<"U+D83C", "U+DD40",
              "U+1F140">>, <<"U+D83C", "U+DD41", "U+1F141">>, <<"U+D83C", "U+DD42", "U+1F142">>,
              <<"U+D83C", "U+DD43", "U+1F143">>, <<"U+D83C", "U+DD44", "U+1F144">>, <<"U+D83C",
              "U+DD45", "U+1F145">>, <<"U+D83C", "U+DD46", "U+1F146">>, <<"U+D83C", "U+DD47",
              "U+1F147">>, <<"U+D83C", "U+DD48", "U+1F148">>, <<"U+D83C", "U+DD49", "U+1F149">>,
              <<"U+D83C", "U+DD50", "U+1F150">>, <<"U+D83C", "U+DD51", "U+1F151">>, <<"U+D83C",
              "U+DD52", "U+1F152">>, <<"U+D83C", "U+DD53", "U+1F153">>, <<"U+D83C", "U+DD54",
              "U+1F154">>, <<"U+D83C", "U+DD55", "U+1F155">>, <<"U+D83C", "U+DD56", "U+1F156">>,
              <<"U+D83C", "U+DD57", "U+1F157">>, <<"U+D83C", "U+DD58", "U+1F158">>, <<"U+D83C",
              "U+DD59", "U+1F159">>, <<"U+D83C", "U+DD5A", "U+1F15A">>, <<"U+D83C", "U+DD5B",
              "U+1F15B">>, <<"U+D83C", "U+DD5C", "U+1F15C">>, <<"U+D83C", "U+DD5D", "U+1F15D">>,
              <<"U+D83C", "U+DD5E", "U+1F15E">>, <<"U+D83C", "U+DD5F", "U+1F15F">>, <<"U+D83C",
              "U+DD60", "U+1F160">>, <<"U+D83C", "U+DD61", "U+1F161">>, <<"U+D83C", "U+DD62",
              "U+1F162">>, <<"U+D83C", "U+DD63", "U+1F163">>, <<"U+D83C", "U+DD64", "U+1F164">>,
              <<"U+D83C", "U+DD65", "U+1F165">>, <<"U+D83C", "U+DD66", "U+1F166">>, <<"U+D83C",
              "U+DD67", "U+1F167">>, <<"U+D83C", "U+DD68", "U+1F168">>, <<"U+D83C", "U+DD69",
              "U+1F169">>, <<"U+D83C", "U+DD70", "U+1F170">>, <<"U+D83C", "U+DD71", "U+1F171">>,
              <<"U+D83C", "U+DD72", "U+1F172">>, <<"U+D83C", "U+DD73", "U+1F173">>, <<"U+D83C",
              "U+DD74", "U+1F174">>, <<"U+D83C", "U+DD75", "U+1F175">>, <<"U+D83C", "U+DD76",
              "U+1F176">>, <<"U+D83C", "U+DD77", "U+1F177">>, <<"U+D83C", "U+DD78", "U+1F178">>,
              <<"U+D83C", "U+DD79", "U+1F179">>, <<"U+D83C", "U+DD7A", "U+1F17A">>, <<"U+D83C",
              "U+DD7B", "U+1F17B">>, <<"U+D83C", "U+DD7C", "U+1F17C">>, <<"U+D83C", "U+DD7D",
              "U+1F17D">>, <<"U+D83C", "U+DD7E", "U+1F17E">>, <<"U+D83C", "U+DD7F", "U+1F17F">>,
              <<"U+D83C", "U+DD80", "U+1F180">>, <<"U+D83C", "U+DD81", "U+1F181">>, <<"U+D83C",
              "U+DD82", "U+1F182">>, <<"U+D83C", "U+DD83", "U+1F183">>, <<"U+D83C", "U+DD84",
              "U+1F184">>, <<"U+D83C", "U+DD85", "U+1F185">>, <<"U+D83C", "U+DD86", "U+1F186">>,
              <<"U+D83C", "U+DD87", "U+1F187">>, <<"U+D83C", "U+DD88", "U+1F188">>, <<"U+D83C",
              "U+DD89", "U+1F189">>, <<"U+D83C", "U+DFFB", "U+1F3FB">>, <<"U+D83C", "U+DFFC",
              "U+1F3FC">>, <<"U+D83C", "U+DFFD", "U+1F3FD">>, <<"U+D83C", "U+DFFE", "U+1F3FE">>,
              <<"U+D83C", "U+DFFF", "U+1F3FF">>, <<"U+DB40", "U+DC01", "U+E0001">>, <<"U+DB40",
              "U+DC20", "U+E0020">>, <<"U+DB40", "U+DC21", "U+E0021">>, <<"U+DB40", "U+DC22",
              "U+E0022">>, <<"U+DB40", "U+DC23", "U+E0023">>, <<"U+DB40", "U+DC24", "U+E0024">>,
              <<"U+DB40", "U+DC25", "U+E0025">>, <<"U+DB40", "U+DC26", "U+E0026">>, <<"U+DB40",
              "U+DC27", "U+E0027">>, <<"U+DB40", "U+DC28", "U+E0028">>, <<"U+DB40", "U+DC29",
              "U+E0029">>, <<"U+DB40", "U+DC2A", "U+E002A">>, <<"U+DB40", "U+DC2B", "U+E002B">>,
              <<"U+DB40", "U+DC2C", "U+E002C">>, <<"U+DB40", "U+DC2D", "U+E002D">>, <<"U+DB40",
              "U+DC2E", "U+E002E">>, <<"U+DB40", "U+DC2F", "U+E002F">>, <<"U+DB40", "U+DC30",
              "U+E0030">>, <<"U+DB40", "U+DC31", "U+E0031">>, <<"U+DB40", "U+DC32", "U+E0032">>,
              <<"U+DB40", "U+DC33", "U+E0033">>, <<"U+DB40", "U+DC34", "U+E0034">>, <<"U+DB40",
              "U+DC35", "U+E0035">>, <<"U+DB40", "U+DC36", "U+E0036">>, <<"U+DB40", "U+DC37",
              "U+E0037">>, <<"U+DB40", "U+DC38", "U+E0038">>, <<"U+DB40", "U+DC39", "U+E0039">>,
              <<"U+DB40", "U+DC3A", "U+E003A">>, <<"U+DB40", "U+DC3B", "U+E003B">>, <<"U+DB40",
              "U+DC3C", "U+E003C">>, <<"U+DB40", "U+DC3D", "U+E003D">>, <<"U+DB40", "U+DC3E",
              "U+E003E">>, <<"U+DB40", "U+DC3F", "U+E003F">>, <<"U+DB40", "U+DC40", "U+E0040">>,
              <<"U+DB40", "U+DC41", "U+E0041">>, <<"U+DB40", "U+DC42", "U+E0042">>, <<"U+DB40",
              "U+DC43", "U+E0043">>, <<"U+DB40", "U+DC44", "U+E0044">>, <<"U+DB40", "U+DC45",
              "U+E0045">>, <<"U+DB40", "U+DC46", "U+E0046">>, <<"U+DB40", "U+DC47", "U+E0047">>,
              <<"U+DB40", "U+DC48", "U+E0048">>, <<"U+DB40", "U+DC49", "U+E0049">>, <<"U+DB40",
              "U+DC4A", "U+E004A">>, <<"U+DB40", "U+DC4B", "U+E004B">>, <<"U+DB40", "U+DC4C",
              "U+E004C">>, <<"U+DB40", "U+DC4D", "U+E004D">>, <<"U+DB40", "U+DC4E", "U+E004E">>,
              <<"U+DB40", "U+DC4F", "U+E004F">>, <<"U+DB40", "U+DC50", "U+E0050">>, <<"U+DB40",
              "U+DC51", "U+E0051">>, <<"U+DB40", "U+DC52", "U+E0052">>, <<"U+DB40", "U+DC53",
              "U+E0053">>, <<"U+DB40", "U+DC54", "U+E0054">>, <<"U+DB40", "U+DC55", "U+E0055">>,
              <<"U+DB40", "U+DC56", "U+E0056">>, <<"U+DB40", "U+DC57", "U+E0057">>, <<"U+DB40",
              "U+DC58", "U+E0058">>, <<"U+DB40", "U+DC59", "U+E0059">>, <<"U+DB40", "U+DC5A",
              "U+E005A">>, <<"U+DB40", "U+DC5B", "U+E005B">>, <<"U+DB40", "U+DC5C", "U+E005C">>,
              <<"U+DB40", "U+DC5D", "U+E005D">>, <<"U+DB40", "U+DC5E", "U+E005E">>, <<"U+DB40",
              "U+DC5F", "U+E005F">>, <<"U+DB40", "U+DC60", "U+E0060">>, <<"U+DB40", "U+DC61",
              "U+E0061">>, <<"U+DB40", "U+DC62", "U+E0062">>, <<"U+DB40", "U+DC63", "U+E0063">>,
              <<"U+DB40", "U+DC64", "U+E0064">>, <<"U+DB40", "U+DC65", "U+E0065">>, <<"U+DB40",
              "U+DC66", "U+E0066">>, <<"U+DB40", "U+DC67", "U+E0067">>, <<"U+DB40", "U+DC68",
              "U+E0068">>, <<"U+DB40", "U+DC69", "U+E0069">>, <<"U+DB40", "U+DC6A", "U+E006A">>,
              <<"U+DB40", "U+DC6B", "U+E006B">>, <<"U+DB40", "U+DC6C", "U+E006C">>, <<"U+DB40",
              "U+DC6D", "U+E006D">>, <<"U+DB40", "U+DC6E", "U+E006E">>, <<"U+DB40", "U+DC6F",
              "U+E006F">>, <<"U+DB40", "U+DC70", "U+E0070">>, <<"U+DB40", "U+DC71", "U+E0071">>,
              <<"U+DB40", "U+DC72", "U+E0072">>, <<"U+DB40", "U+DC73", "U+E0073">>, <<"U+DB40",
              "U+DC74", "U+E0074">>, <<"U+DB40", "U+DC75", "U+E0075">>, <<"U+DB40", "U+DC76",
              "U+E0076">>, <<"U+DB40", "U+DC77", "U+E0077">>, <<"U+DB40", "U+DC78", "U+E0078">>,
              <<"U+DB40", "U+DC79", "U+E0079">>, <<"U+DB40", "U+DC7A", "U+E007A">>, <<"U+DB40",
              "U+DC7B", "U+E007B">>, <<"U+DB40", "U+DC7C", "U+E007C">>, <<"U+DB40", "U+DC7D",
              "U+E007D">>, <<"U+DB40", "U+DC7E", "U+E007E">>, <<"U+DB40", "U+DC7F", "U+E007F">>,
              <<"U+DB40", "U+DD00", "U+E0100">>, <<"U+DB40", "U+DD01", "U+E0101">>, <<"U+DB40",
              "U+DD02", "U+E0102">>, <<"U+DB40", "U+DD03", "U+E0103">>, <<"U+DB40", "U+DD04",
              "U+E0104">>, <<"U+DB40", "U+DD05", "U+E0105">>, <<"U+DB40", "U+DD06", "U+E0106">>,
              <<"U+DB40", "U+DD07", "U+E0107">>, <<"U+DB40", "U+DD08", "U+E0108">>, <<"U+DB40",
              "U+DD09", "U+E0109">>, <<"U+DB40", "U+DD0A", "U+E010A">>, <<"U+DB40", "U+DD0B",
              "U+E010B">>, <<"U+DB40", "U+DD0C", "U+E010C">>, <<"U+DB40", "U+DD0D", "U+E010D">>,
              <<"U+DB40", "U+DD0E", "U+E010E">>, <<"U+DB40", "U+DD0F", "U+E010F">>, <<"U+DB40",
              "U+DD10", "U+E0110">>, <<"U+DB40", "U+DD11", "U+E0111">>, <<"U+DB40", "U+DD12",
              "U+E0112">>, <<"U+DB40", "U+DD13", "U+E0113">>, <<"U+DB40", "U+DD14", "U+E0114">>,
              <<"U+DB40", "U+DD15", "U+E0115">>, <<"U+DB40", "U+DD16", "U+E0116">>, <<"U+DB40",
              "U+DD17", "U+E0117">>, <<"U+DB40", "U+DD18", "U+E0118">>, <<"U+DB40", "U+DD19",
              "U+E0119">>, <<"U+DB40", "U+DD1A", "U+E011A">>, <<"U+DB40", "U+DD1B", "U+E011B">>,
              <<"U+DB40", "U+DD1C", "U+E011C">>, <<"U+DB40", "U+DD1D", "U+E011D">>, <<"U+DB40",
              "U+DD1E", "U+E011E">>, <<"U+DB40", "U+DD1F", "U+E011F">>, <<"U+DB40", "U+DD20",
              "U+E0120">>, <<"U+DB40", "U+DD21", "U+E0121">>, <<"U+DB40", "U+DD22", "U+E0122">>,
              <<"U+DB40", "U+DD23", "U+E0123">>, <<"U+DB40", "U+DD24", "U+E0124">>, <<"U+DB40",
              "U+DD25", "U+E0125">>, <<"U+DB40", "U+DD26", "U+E0126">>, <<"U+DB40", "U+DD27",
              "U+E0127">>, <<"U+DB40", "U+DD28", "U+E0128">>, <<"U+DB40", "U+DD29", "U+E0129">>,
              <<"U+DB40", "U+DD2A", "U+E012A">>, <<"U+DB40", "U+DD2B", "U+E012B">>, <<"U+DB40",
              "U+DD2C", "U+E012C">>, <<"U+DB40", "U+DD2D", "U+E012D">>, <<"U+DB40", "U+DD2E",
              "U+E012E">>, <<"U+DB40", "U+DD2F", "U+E012F">>, <<"U+DB40", "U+DD30", "U+E0130">>,
              <<"U+DB40", "U+DD31", "U+E0131">>, <<"U+DB40", "U+DD32", "U+E0132">>, <<"U+DB40",
              "U+DD33", "U+E0133">>, <<"U+DB40", "U+DD34", "U+E0134">>, <<"U+DB40", "U+DD35",
              "U+E0135">>, <<"U+DB40", "U+DD36", "U+E0136">>, <<"U+DB40", "U+DD37", "U+E0137">>,
              <<"U+DB40", "U+DD38", "U+E0138">>, <<"U+DB40", "U+DD39", "U+E0139">>, <<"U+DB40",
              "U+DD3A", "U+E013A">>, <<"U+DB40", "U+DD3B", "U+E013B">>, <<"U+DB40", "U+DD3C",
              "U+E013C">>, <<"U+DB40", "U+DD3D", "U+E013D">>, <<"U+DB40", "U+DD3E", "U+E013E">>,
              <<"U+DB40", "U+DD3F", "U+E013F">>, <<"U+DB40", "U+DD40", "U+E0140">>, <<"U+DB40",
              "U+DD41", "U+E0141">>, <<"U+DB40", "U+DD42", "U+E0142">>, <<"U+DB40", "U+DD43",
              "U+E0143">>, <<"U+DB40", "U+DD44", "U+E0144">>, <<"U+DB40", "U+DD45", "U+E0145">>,
              <<"U+DB40", "U+DD46", "U+E0146">>, <<"U+DB40", "U+DD47", "U+E0147">>, <<"U+DB40",
              "U+DD48", "U+E0148">>, <<"U+DB40", "U+DD49", "U+E0149">>, <<"U+DB40", "U+DD4A",
              "U+E014A">>, <<"U+DB40", "U+DD4B", "U+E014B">>, <<"U+DB40", "U+DD4C", "U+E014C">>,
              <<"U+DB40", "U+DD4D", "U+E014D">>, <<"U+DB40", "U+DD4E", "U+E014E">>, <<"U+DB40",
              "U+DD4F", "U+E014F">>, <<"U+DB40", "U+DD50", "U+E0150">>, <<"U+DB40", "U+DD51",
              "U+E0151">>, <<"U+DB40", "U+DD52", "U+E0152">>, <<"U+DB40", "U+DD53", "U+E0153">>,
              <<"U+DB40", "U+DD54", "U+E0154">>, <<"U+DB40", "U+DD55", "U+E0155">>, <<"U+DB40",
              "U+DD56", "U+E0156">>, <<"U+DB40", "U+DD57", "U+E0157">>, <<"U+DB40", "U+DD58",
              "U+E0158">>, <<"U+DB40", "U+DD59", "U+E0159">>, <<"U+DB40", "U+DD5A", "U+E015A">>,
              <<"U+DB40", "U+DD5B", "U+E015B">>, <<"U+DB40", "U+DD5C", "U+E015C">>, <<"U+DB40",
              "U+DD5D", "U+E015D">>, <<"U+DB40", "U+DD5E", "U+E015E">>, <<"U+DB40", "U+DD5F",
              "U+E015F">>, <<"U+DB40", "U+DD60", "U+E0160">>, <<"U+DB40", "U+DD61", "U+E0161">>,
              <<"U+DB40", "U+DD62", "U+E0162">>, <<"U+DB40", "U+DD63", "U+E0163">>, <<"U+DB40",
              "U+DD64", "U+E0164">>, <<"U+DB40", "U+DD65", "U+E0165">>, <<"U+DB40", "U+DD66",
              "U+E0166">>, <<"U+DB40", "U+DD67", "U+E0167">>, <<"U+DB40", "U+DD68", "U+E0168">>,
              <<"U+DB40", "U+DD69", "U+E0169">>, <<"U+DB40", "U+DD6A", "U+E016A">>, <<"U+DB40",
              "U+DD6B", "U+E016B">>, <<"U+DB40", "U+DD6C", "U+E016C">>, <<"U+DB40", "U+DD6D",
              "U+E016D">>, <<"U+DB40", "U+DD6E", "U+E016E">>, <<"U+DB40", "U+DD6F", "U+E016F">>,
              <<"U+DB40", "U+DD70", "U+E0170">>, <<"U+DB40", "U+DD71", "U+E0171">>, <<"U+DB40",
              "U+DD72", "U+E0172">>, <<"U+DB40", "U+DD73", "U+E0173">>, <<"U+DB40", "U+DD74",
              "U+E0174">>, <<"U+DB40", "U+DD75", "U+E0175">>, <<"U+DB40", "U+DD76", "U+E0176">>,
              <<"U+DB40", "U+DD77", "U+E0177">>, <<"U+DB40", "U+DD78", "U+E0178">>, <<"U+DB40",
              "U+DD79", "U+E0179">>, <<"U+DB40", "U+DD7A", "U+E017A">>, <<"U+DB40", "U+DD7B",
              "U+E017B">>, <<"U+DB40", "U+DD7C", "U+E017C">>, <<"U+DB40", "U+DD7D", "U+E017D">>,
              <<"U+DB40", "U+DD7E", "U+E017E">>, <<"U+DB40", "U+DD7F", "U+E017F">>, <<"U+DB40",
              "U+DD80", "U+E0180">>, <<"U+DB40", "U+DD81", "U+E0181">>, <<"U+DB40", "U+DD82",
              "U+E0182">>, <<"U+DB40", "U+DD83", "U+E0183">>, <<"U+DB40", "U+DD84", "U+E0184">>,
              <<"U+DB40", "U+DD85", "U+E0185">>, <<"U+DB40", "U+DD86", "U+E0186">>, <<"U+DB40",
              "U+DD87", "U+E0187">>, <<"U+DB40", "U+DD88", "U+E0188">>, <<"U+DB40", "U+DD89",
              "U+E0189">>, <<"U+DB40", "U+DD8A", "U+E018A">>, <<"U+DB40", "U+DD8B", "U+E018B">>,
              <<"U+DB40", "U+DD8C", "U+E018C">>, <<"U+DB40", "U+DD8D", "U+E018D">>, <<"U+DB40",
              "U+DD8E", "U+E018E">>, <<"U+DB40", "U+DD8F", "U+E018F">>, <<"U+DB40", "U+DD90",
              "U+E0190">>, <<"U+DB40", "U+DD91", "U+E0191">>, <<"U+DB40", "U+DD92", "U+E0192">>,
              <<"U+DB40", "U+DD93", "U+E0193">>, <<"U+DB40", "U+DD94", "U+E0194">>, <<"U+DB40",
              "U+DD95", "U+E0195">>, <<"U+DB40", "U+DD96", "U+E0196">>, <<"U+DB40", "U+DD97",
              "U+E0197">>, <<"U+DB40", "U+DD98", "U+E0198">>, <<"U+DB40", "U+DD99", "U+E0199">>,
              <<"U+DB40", "U+DD9A", "U+E019A">>, <<"U+DB40", "U+DD9B", "U+E019B">>, <<"U+DB40",
              "U+DD9C", "U+E019C">>, <<"U+DB40", "U+DD9D", "U+E019D">>, <<"U+DB40", "U+DD9E",
              "U+E019E">>, <<"U+DB40", "U+DD9F", "U+E019F">>, <<"U+DB40", "U+DDA0", "U+E01A0">>,
              <<"U+DB40", "U+DDA1", "U+E01A1">>, <<"U+DB40", "U+DDA2", "U+E01A2">>, <<"U+DB40",
              "U+DDA3", "U+E01A3">>, <<"U+DB40", "U+DDA4", "U+E01A4">>, <<"U+DB40", "U+DDA5",
              "U+E01A5">>, <<"U+DB40", "U+DDA6", "U+E01A6">>, <<"U+DB40", "U+DDA7", "U+E01A7">>,
              <<"U+DB40", "U+DDA8", "U+E01A8">>, <<"U+DB40", "U+DDA9", "U+E01A9">>, <<"U+DB40",
              "U+DDAA", "U+E01AA">>, <<"U+DB40", "U+DDAB", "U+E01AB">>, <<"U+DB40", "U+DDAC",
              "U+E01AC">>, <<"U+DB40", "U+DDAD", "U+E01AD">>, <<"U+DB40", "U+DDAE", "U+E01AE">>,
              <<"U+DB40", "U+DDAF", "U+E01AF">>, <<"U+DB40", "U+DDB0", "U+E01B0">>, <<"U+DB40",
              "U+DDB1", "U+E01B1">>, <<"U+DB40", "U+DDB2", "U+E01B2">>, <<"U+DB40", "U+DDB3",
              "U+E01B3">>, <<"U+DB40", "U+DDB4", "U+E01B4">>, <<"U+DB40", "U+DDB5", "U+E01B5">>,
              <<"U+DB40", "U+DDB6", "U+E01B6">>, <<"U+DB40", "U+DDB7", "U+E01B7">>, <<"U+DB40",
              "U+DDB8", "U+E01B8">>, <<"U+DB40", "U+DDB9", "U+E01B9">>, <<"U+DB40", "U+DDBA",
              "U+E01BA">>, <<"U+DB40", "U+DDBB", "U+E01BB">>, <<"U+DB40", "U+DDBC", "U+E01BC">>,
              <<"U+DB40", "U+DDBD", "U+E01BD">>, <<"U+DB40", "U+DDBE", "U+E01BE">>, <<"U+DB40",
              "U+DDBF", "U+E01BF">>, <<"U+DB40", "U+DDC0", "U+E01C0">>, <<"U+DB40", "U+DDC1",
              "U+E01C1">>, <<"U+DB40", "U+DDC2", "U+E01C2">>, <<"U+DB40", "U+DDC3", "U+E01C3">>,
              <<"U+DB40", "U+DDC4", "U+E01C4">>, <<"U+DB40", "U+DDC5", "U+E01C5">>, <<"U+DB40",
              "U+DDC6", "U+E01C6">>, <<"U+DB40", "U+DDC7", "U+E01C7">>, <<"U+DB40", "U+DDC8",
              "U+E01C8">>, <<"U+DB40", "U+DDC9", "U+E01C9">>, <<"U+DB40", "U+DDCA", "U+E01CA">>,
              <<"U+DB40", "U+DDCB", "U+E01CB">>, <<"U+DB40", "U+DDCC", "U+E01CC">>, <<"U+DB40",
              "U+DDCD", "U+E01CD">>, <<"U+DB40", "U+DDCE", "U+E01CE">>, <<"U+DB40", "U+DDCF",
              "U+E01CF">>, <<"U+DB40", "U+DDD0", "U+E01D0">>, <<"U+DB40", "U+DDD1", "U+E01D1">>,
              <<"U+DB40", "U+DDD2", "U+E01D2">>, <<"U+DB40", "U+DDD3", "U+E01D3">>, <<"U+DB40",
              "U+DDD4", "U+E01D4">>, <<"U+DB40", "U+DDD5", "U+E01D5">>, <<"U+DB40", "U+DDD6",
              "U+E01D6">>, <<"U+DB40", "U+DDD7", "U+E01D7">>, <<"U+DB40", "U+DDD8", "U+E01D8">>,
              <<"U+DB40", "U+DDD9", "U+E01D9">>, <<"U+DB40", "U+DDDA", "U+E01DA">>, <<"U+DB40",
              "U+DDDB", "U+E01DB">>, <<"U+DB40", "U+DDDC", "U+E01DC">>, <<"U+DB40", "U+DDDD",
              "U+E01DD">>, <<"U+DB40", "U+DDDE", "U+E01DE">>, <<"U+DB40", "U+DDDF", "U+E01DF">>,
              <<"U+DB40", "U+DDE0", "U+E01E0">>, <<"U+DB40", "U+DDE1", "U+E01E1">>, <<"U+DB40",
              "U+DDE2", "U+E01E2">>, <<"U+DB40", "U+DDE3", "U+E01E3">>, <<"U+DB40", "U+DDE4",
              "U+E01E4">>, <<"U+DB40", "U+DDE5", "U+E01E5">>, <<"U+DB40", "U+DDE6", "U+E01E6">>,
              <<"U+DB40", "U+DDE7", "U+E01E7">>, <<"U+DB40", "U+DDE8", "U+E01E8">>, <<"U+DB40",
              "U+DDE9", "U+E01E9">>, <<"U+DB40", "U+DDEA", "U+E01EA">>, <<"U+DB40", "U+DDEB",
              "U+E01EB">>, <<"U+DB40", "U+DDEC", "U+E01EC">>, <<"U+DB40", "U+DDED", "U+E01ED">>,
              <<"U+DB40", "U+DDEE", "U+E01EE">>, <<"U+DB40", "U+DDEF", "U+E01EF">> >> ]

\* String.prototype.toLowerCase (line 248 calls it): the default lower case
\* conversion of Unicode on a string of UTF-16 code units.  Every letter with
\* a lower case mapping lowers to it (U+0130 to i and U+0307); U+03A3 lowers
\* to the final sigma U+03C2 when the nearest character before it that is not
\* case-ignorable is cased and the nearest one after it is not.
\* Only characters of cased and caseIgnorable have a lower case mapping.
\* convert reads the tables through its parameter.
toLowerCase(str) ==
    LET convert(data) ==
            LET upper == <<"A", "B", "C", "D", "E", "F", "G", "H", "I", "J", "K", "L", "M",
                           "N", "O", "P", "Q", "R", "S", "T", "U", "V", "W", "X", "Y", "Z">>
                lower == <<"a", "b", "c", "d", "e", "f", "g", "h", "i", "j", "k", "l", "m",
                           "n", "o", "p", "q", "r", "s", "t", "u", "v", "w", "x", "y", "z">>
                ascii == data.ascii
                upperLetters == data.upperLetters
                lowerLetters == data.lowerLetters
                cased == data.cased
                caseIgnorable == data.caseIgnorable
                surrogates == data.surrogates
                highSurrogates == data.highSurrogates
                pairAt(i) ==
                    IF i < Len(str) /\ str[i] \in highSurrogates
                    THEN {k \in 1..Len(surrogates) :
                            surrogates[k][1] = str[i] /\ surrogates[k][2] = str[i + 1]}
                    ELSE {}
                RECURSIVE codePoints(_)
                codePoints(i) ==
                    IF i > Len(str) THEN <<>>
                    ELSE IF pairAt(i) # {}
                         THEN <<[c |-> surrogates[CHOOSE k \in pairAt(i) : TRUE][3], units |-> 2]>>
                                \o codePoints(i + 2)
                    ELSE <<[c |-> str[i], units |-> 1]>> \o codePoints(i + 1)
                cps == codePoints(1)
                finalSigma(i) ==
                    /\ \E j \in 1..(i - 1) :
                          /\ cps[j].c \in cased
                          /\ \A k \in (j + 1)..(i - 1) : cps[k].c \in caseIgnorable
                    /\ ~ \E j \in (i + 1)..Len(cps) :
                          /\ cps[j].c \in cased
                          /\ \A k \in (i + 1)..(j - 1) : cps[k].c \in caseIgnorable
                lowerOf(i) ==
                    LET c == cps[i].c
                    IN  IF \E k \in 1..26 : upper[k] = c
                        THEN lower[CHOOSE k \in 1..26 : upper[k] = c]
                        ELSE IF c \in ascii THEN c
                        ELSE IF c = "U+03A3" THEN IF finalSigma(i) THEN "U+03C2" ELSE "U+03C3"
                        ELSE IF c \in cased \/ c \in caseIgnorable
                             THEN IF \E k \in 1..Len(upperLetters) : upperLetters[k] = c
                                  THEN lowerLetters[CHOOSE k \in 1..Len(upperLetters) :
                                                        upperLetters[k] = c]
                                  ELSE c
                        ELSE c
                units(i) ==
                    IF cps[i].c = "U+0130" THEN <<"i", "U+0307">>
                    ELSE IF cps[i].units = 2
                         THEN LET k == CHOOSE k \in 1..Len(surrogates) : surrogates[k][3] = lowerOf(i)
                              IN  <<surrogates[k][1], surrogates[k][2]>>
                    ELSE <<lowerOf(i)>>
                RECURSIVE from(_)
                from(i) == IF i > Len(cps) THEN <<>> ELSE units(i) \o from(i + 1)
            IN  from(1)
    IN  convert(UnicodeData)

\* lines 52-65
RECURSIVE getElementName(_)
getElementName(n) ==
    IF n.type = "JSXIdentifier" THEN n.name
    ELSE IF n.type = "JSXMemberExpression"
         THEN getElementName(n.object) \o <<".">> \o n.property.name
    ELSE IF n.type = "JSXNamespacedName"
         THEN n.namespace.name \o <<":">> \o n.name.name
    ELSE <<>>

\* lines 73-83 and 95-105: the parts collected from a member expression chain
RECURSIVE memberParts(_)
memberParts(current) ==
    IF current.type = "MemberExpression"
    THEN memberParts(current.object)
            \o (IF current.property.type = "Identifier"
                THEN <<current.property.name>> ELSE <<>>)
    ELSE IF current.type = "Identifier" THEN <<current.name>>
    ELSE <<>>

\* mutant: the name of a member call is the name of its last property
getCalleeName_LastPart(n) ==
    IF n.callee.type = "Identifier" THEN n.callee.name
    ELSE IF n.callee.type = "MemberExpression"
         THEN IF n.callee.property.type = "Identifier"
              THEN n.callee.property.name ELSE <<>>
    ELSE null

\* lines 68-87
getCalleeName(n) ==
    IF n.callee.type = "Identifier" THEN n.callee.name
    ELSE IF n.callee.type = "MemberExpression"
         THEN join(memberParts(n.callee), <<".">>)
    ELSE null

\* lines 90-109
getTagName(n) ==
    IF n.tag.type = "Identifier" THEN n.tag.name
    ELSE IF n.tag.type = "MemberExpression"
         THEN join(memberParts(n.tag), <<".">>)
    ELSE <<>>

----------------------------------------------------------------------------
(* The scope options.  A trinary option is [is |-> "false"], [is |-> "true"] *)
(* or an object, [is |-> "object", ...]; an optional property that is not   *)
(* given is not in the DOMAIN of the object.                                 *)

Off == [is |-> "false"]
On == [is |-> "true"]
OnlyFunctions(fs) == [is |-> "object", onlyFunctions |-> fs]
OnlyAttributes(as) == [is |-> "object", onlyAttributes |-> as]
OnlyComponents(cs) == [is |-> "object", onlyComponents |-> cs]

\* object.property ?? d
orElse(object, property, d) ==
    IF property \in DOMAIN object THEN object[property] ELSE d

\* line 49
DEFAULT_CHECKED_ATTRIBUTES ==
    { <<"t", "i", "t", "l", "e">>,
      <<"a", "l", "t">>,
      <<"l", "a", "b", "e", "l">>,
      <<"a", "r", "i", "a", "-", "l", "a", "b", "e", "l">>,
      <<"a", "r", "i", "a", "-", "d", "e", "s", "c", "r", "i", "b", "e", "d", "b", "y">> }

\* the value of property k of the options object o, d when it is absent
withDefault(o, k, d) == IF k \in DOMAIN o THEN o[k] ELSE d

\* lines 215-220
togglesOf(o) ==
    [ellipsis    |-> withDefault(o, "ellipsis", TRUE),
     emdash      |-> withDefault(o, "emdash", TRUE),
     endash      |-> withDefault(o, "endash", TRUE),
     quotes      |-> withDefault(o, "quotes", TRUE),
     apostrophes |-> withDefault(o, "apostrophes", TRUE),
     primes      |-> withDefault(o, "primes", TRUE)]

\* mutant: string literals and template literals are checked by default
scopeOf_LiteralsOn(o) ==
    [checkStringLiterals   |-> withDefault(o, "checkStringLiterals", On),
     checkTemplateLiterals |-> withDefault(o, "checkTemplateLiterals", On),
     checkAttributes       |-> withDefault(o, "checkAttributes",
                                    OnlyAttributes(DEFAULT_CHECKED_ATTRIBUTES)),
     checkChildren         |-> withDefault(o, "checkChildren", On)]

\* lines 222-225
scopeOf(o) ==
    [checkStringLiterals   |-> withDefault(o, "checkStringLiterals", Off),
     checkTemplateLiterals |-> withDefault(o, "checkTemplateLiterals", Off),
     checkAttributes       |-> withDefault(o, "checkAttributes",
                                    OnlyAttributes(DEFAULT_CHECKED_ATTRIBUTES)),
     checkChildren         |-> withDefault(o, "checkChildren", On)]

\* context.options[0] ?? {} of line 212 when the rule is configured without options
NoOptions == [k \in {} |-> TRUE]

\* lines 232-234: null is the value for an empty stack
getCurrentElementName(stack) ==
    IF Len(stack) > 0 THEN stack[Len(stack)] ELSE null

\* mutant: any element of the stack may match, not only the innermost
shouldCheckChildren_AnyAncestor(sc, stack) ==
    IF sc.checkChildren.is = "false" THEN FALSE
    ELSE IF sc.checkChildren.is = "true" THEN TRUE
    ELSE \E k \in 1..Len(stack) :
            \/ stack[k] \in sc.checkChildren.onlyComponents
            \/ toLowerCase(stack[k]) \in sc.checkChildren.onlyComponents

\* lines 237-250
shouldCheckChildren(sc, stack) ==
    IF sc.checkChildren.is = "false" THEN FALSE
    ELSE IF sc.checkChildren.is = "true" THEN TRUE
    ELSE LET currentElement == getCurrentElementName(stack)
         IN  IF currentElement = null \/ currentElement = <<>> THEN FALSE
             ELSE LET allowedComponents == sc.checkChildren.onlyComponents
                  IN  \/ currentElement \in allowedComponents
                      \/ toLowerCase(currentElement) \in allowedComponents

\* mutant: an allowlist is ignored, every attribute is checked unless the option is false
shouldCheckAttribute_AllowAll(sc, attrName) ==
    IF sc.checkAttributes.is = "false" THEN FALSE ELSE TRUE

\* lines 253-259
shouldCheckAttribute(sc, attrName) ==
    IF sc.checkAttributes.is = "false" THEN FALSE
    ELSE IF sc.checkAttributes.is = "true" THEN TRUE
    ELSE attrName \in sc.checkAttributes.onlyAttributes

\* mutant: only the innermost enclosing call expression is looked at
RECURSIVE isInsideAllowedFunction_Innermost(_, _)
isInsideAllowedFunction_Innermost(anc, allowedFunctions) ==
    IF anc = <<>> THEN FALSE
    ELSE LET current == anc[Len(anc)]
         IN  IF current.type = "CallExpression"
             THEN LET calleeName == getCalleeName(current)
                  IN  calleeName # null /\ calleeName # <<>>
                        /\ calleeName \in allowedFunctions
             ELSE isInsideAllowedFunction_Innermost(
                      SubSeq(anc, 1, Len(anc) - 1), allowedFunctions)

\* lines 272-284: the loop over node.parent, current = the last of anc
RECURSIVE isInsideAllowedFunction(_, _)
isInsideAllowedFunction(anc, allowedFunctions) ==
    IF anc = <<>> THEN FALSE
    ELSE LET current == anc[Len(anc)]
             calleeName == getCalleeName(current)
         IN  IF /\ current.type = "CallExpression"
                /\ calleeName # null /\ calleeName # <<>>
                /\ calleeName \in allowedFunctions
             THEN TRUE
             ELSE isInsideAllowedFunction(SubSeq(anc, 1, Len(anc) - 1), allowedFunctions)

\* lines 262-269
shouldCheckStringLiteral(sc, anc) ==
    IF sc.checkStringLiterals.is = "false" THEN FALSE
    ELSE IF sc.checkStringLiterals.is = "true" THEN TRUE
    ELSE isInsideAllowedFunction(anc, sc.checkStringLiterals.onlyFunctions)

\* lines 287-308; anc is never empty for a template element, whose parent is
\* the template literal or the template literal type (line 307)
shouldCheckTemplateLiteral(sc, anc) ==
    IF sc.checkTemplateLiterals.is = "false" THEN FALSE
    ELSE IF sc.checkTemplateLiterals.is = "true" THEN TRUE
    ELSE LET p == parent(anc)
             pp == parent(SubSeq(anc, 1, Len(anc) - 1))
         IN  IF p.type = "TemplateLiteral"
             THEN IF pp.type = "TaggedTemplateExpression"
                  THEN IF "tags" \in DOMAIN sc.checkTemplateLiterals
                       THEN getTagName(pp) \in sc.checkTemplateLiterals.tags
                       ELSE FALSE
                  ELSE orElse(sc.checkTemplateLiterals, "untagged", FALSE)
             ELSE FALSE

----------------------------------------------------------------------------
(* The rule at work on one span.  checkText (lines 490-493) scans the span  *)
(* and reports every replacement; the host then applies the reported fixes  *)
(* and lints the result again, until a pass reports nothing.                *)

Toggles ==
    [ellipsis : BOOLEAN, emdash : BOOLEAN, endash : BOOLEAN,
     quotes : BOOLEAN, apostrophes : BOOLEAN, primes : BOOLEAN]

\* lines 215-220: every toggle defaults to true
DefaultToggles ==
    [ellipsis |-> TRUE, emdash |-> TRUE, endash |-> TRUE,
     quotes |-> TRUE, apostrophes |-> TRUE, primes |-> TRUE]

\* the toggle sets that differ from the default in the quote family only
QuoteToggles ==
    {o \in Toggles : o.ellipsis /\ o.emdash /\ o.endash}

\* the toggle sets that differ from the default in the ellipsis and dash toggles only
DashToggles == {o \in Toggles : o.quotes /\ o.apostrophes /\ o.primes}

\* the toggle sets that can act on a text without periods
FixToggles == {o \in Toggles : o.ellipsis}

TextsUpTo(alphabet, n) == UNION {[1..k -> alphabet] : k \in 0..n}

\* one character of every class the scanner tells apart
Alphabet == {".", "-", " ", "\"", "'", "5", "a", "("}
QuoteAlphabet == {"'", "\"", "5", "a", " ", "(", ","}
FixAlphabet == {" ", "-", "'", "5", "\""}
DotsAlphabet == {".", "-", "a"}
DashAlphabet == {"-", " ", "a", "\t"}

InitWith(texts, toggleSets, offsets) ==
    /\ options \in toggleSets
    /\ text \in texts
    /\ baseOffset \in offsets
    /\ replacements = <<>>
    /\ pass = 0
    /\ lastIndex = 0
    /\ doubleQuotePositions = <<>>
    /\ pc = "visit"
    /\ scope = scopeOf(NoOptions)
    /\ jsxElementStack = <<>>
    /\ ancestors = <<>>
    /\ node = NoNode

Init == InitWith(TextsUpTo(Alphabet, MaxLen), Toggles, 0..MaxBase)

InitQuote == InitWith(TextsUpTo(QuoteAlphabet, MaxLenQuote), QuoteToggles, 0..MaxBase)

InitFix == InitWith(TextsUpTo(FixAlphabet, MaxLenFix), FixToggles, {0})

InitDots == InitWith(TextsUpTo(DotsAlphabet, MaxLenDots), DashToggles, 0..MaxBase)

InitDash == InitWith(TextsUpTo(DashAlphabet, MaxLenDash), DashToggles, 0..MaxBase)

\* lines 490-493: checkText = findReplacements + reportReplacements
CheckText ==
    /\ pc = "visit"
    /\ replacements' = findReplacements(text, baseOffset, options)
    /\ pc' = "reported"
    /\ UNCHANGED <<options, text, baseOffset, pass, lastIndex, doubleQuotePositions,
                   scope, jsxElementStack, ancestors, node>>

\* lines 482-484: the fixes of one pass are applied and the span is linted again
ApplyFixes ==
    /\ pc = "reported"
    /\ replacements # <<>>
    /\ pass < MaxPasses
    /\ text' = applyFixes(text, baseOffset, replacements)
    /\ replacements' = <<>>
    /\ pass' = pass + 1
    /\ pc' = "visit"
    /\ UNCHANGED <<options, baseOffset, scope, jsxElementStack, ancestors, node,
                   lastIndex, doubleQuotePositions>>

Next == CheckText \/ ApplyFixes

Spec == Init /\ [][Next]_vars

SpecQuote == InitQuote /\ [][Next]_vars

SpecFix == InitFix /\ [][Next]_vars

SpecDots == InitDots /\ [][Next]_vars

SpecDash == InitDash /\ [][Next]_vars

----------------------------------------------------------------------------
(* findReplacements at work on one span, one loop iteration at a time.  pc  *)
(* names the running loop by its regular expression, then "sort", then      *)
(* "reported"; replacements is the array the loops push to.                 *)

\* lines 315-457: the loops in the order of the code, each with the
\* condition under which the code enters it
scanLoops(opts) ==
    LET quoteFamily == opts.quotes \/ opts.apostrophes \/ opts.primes
    IN  << [name |-> "ellipsisRegex", regex |-> ellipsisRegex, entered |-> opts.ellipsis],
           [name |-> "emdashRegex", regex |-> emdashRegex, entered |-> opts.emdash],
           [name |-> "endashRegex", regex |-> endashRegex, entered |-> opts.endash],
           [name |-> "doubleQuoteRegex", regex |-> doubleQuoteRegex,
            entered |-> quoteFamily /\ opts.quotes],
           [name |-> "singleQuoteRegex", regex |-> singleQuoteRegex, entered |-> quoteFamily],
           [name |-> "doublePrimeRegex", regex |-> doublePrimeRegex,
            entered |-> quoteFamily /\ opts.primes] >>

\* the array after the body of the loop has run for a match at index; the
\* body of the double quote loop (line 364) pushes to doubleQuotePositions
\* and leaves the array alone
pushed(loop, reps, t, b, opts, index) ==
    CASE loop = "ellipsisRegex" ->
            Append(reps, Replacement("preferEllipsis", b + index, b + index + 3,
                                     CHARS.ELLIPSIS))
      [] loop = "emdashRegex" ->
            Append(reps, Replacement("preferEmdash", b + index, b + index + 2, CHARS.EMDASH))
      [] loop = "endashRegex" ->
            Append(reps, Replacement("preferEndash", b + index, b + index + 3, CHARS.ENDASH))
      [] loop = "doubleQuoteRegex" -> reps
      [] loop = "singleQuoteRegex" -> reps \o SingleQuotePush(t, b, opts, index)
      [] loop = "doublePrimeRegex" -> DoublePrimeStep(reps, b, index)

\* lines 368-377: the for loop over the collected positions
doubleQuoteEdits(positions, b) ==
    [k \in 1..Len(positions) |->
        LET pos == positions[k]
            isOpening == (k - 1) % 2 = 0
        IN  Replacement("preferQuotes", b + pos, b + pos + 1,
                IF isOpening THEN CHARS.LEFT_DOUBLE ELSE CHARS.RIGHT_DOUBLE)]

\* line 312
StartScan ==
    /\ pc = "visit"
    /\ replacements' = <<>>
    /\ lastIndex' = 0
    /\ doubleQuotePositions' = <<>>
    /\ pc' = scanLoops(options)[1].name
    /\ UNCHANGED <<options, text, baseOffset, pass, scope, jsxElementStack, ancestors, node>>

\* mutant: the regular expressions have no g flag, so that lastIndex stays 0
ExecStep_NoFlag ==
    \E k \in 1..6 :
        LET loop == scanLoops(options)[k]
            match == ExecFrom(text, loop.regex, lastIndex)
        IN  /\ pc = loop.name
            /\ IF ~loop.entered
               THEN /\ pc' = IF k = 6 THEN "sort" ELSE scanLoops(options)[k + 1].name
                    /\ lastIndex' = 0
                    /\ UNCHANGED <<replacements, doubleQuotePositions>>
               ELSE IF match = <<>>
               THEN /\ pc' = IF k = 6 THEN "sort" ELSE scanLoops(options)[k + 1].name
                    /\ lastIndex' = 0
                    /\ replacements' =
                          replacements \o doubleQuoteEdits(doubleQuotePositions, baseOffset)
                    /\ doubleQuotePositions' = <<>>
               ELSE /\ replacements' =
                          pushed(loop.name, replacements, text, baseOffset, options,
                                 Head(match))
                    /\ doubleQuotePositions' =
                          IF loop.name = "doubleQuoteRegex"
                          THEN Append(doubleQuotePositions, Head(match))
                          ELSE doubleQuotePositions
                    /\ lastIndex' = 0
                    /\ pc' = pc
            /\ UNCHANGED <<options, text, baseOffset, pass, scope, jsxElementStack,
                           ancestors, node>>

\* one evaluation of while ((match = regex.exec(text)) !== null) and what
\* follows it up to the next evaluation: for a match, the body of the loop;
\* for null, the way to the next loop, which for the double quote loop goes
\* through the for loop of lines 368-377 (doubleQuotePositions is empty in
\* every other loop).  exec searches from lastIndex and leaves lastIndex at
\* the end of the match, or at 0 when there is none.
ExecStep ==
    \E k \in 1..6 :
        LET loop == scanLoops(options)[k]
            match == ExecFrom(text, loop.regex, lastIndex)
        IN  /\ pc = loop.name
            /\ IF ~loop.entered
               THEN /\ pc' = IF k = 6 THEN "sort" ELSE scanLoops(options)[k + 1].name
                    /\ lastIndex' = 0
                    /\ UNCHANGED <<replacements, doubleQuotePositions>>
               ELSE IF match = <<>>
               THEN /\ pc' = IF k = 6 THEN "sort" ELSE scanLoops(options)[k + 1].name
                    /\ lastIndex' = 0
                    /\ replacements' =
                          replacements \o doubleQuoteEdits(doubleQuotePositions, baseOffset)
                    /\ doubleQuotePositions' = <<>>
               ELSE /\ replacements' =
                          pushed(loop.name, replacements, text, baseOffset, options,
                                 Head(match))
                    /\ doubleQuotePositions' =
                          IF loop.name = "doubleQuoteRegex"
                          THEN Append(doubleQuotePositions, Head(match))
                          ELSE doubleQuotePositions
                    /\ lastIndex' = Head(match) + Len(loop.regex)
                    /\ pc' = pc
            /\ UNCHANGED <<options, text, baseOffset, pass, scope, jsxElementStack,
                           ancestors, node>>

\* lines 460-473
SortAndFilter ==
    /\ pc = "sort"
    /\ replacements' = filtered(SortByStart(replacements))
    /\ pc' = "reported"
    /\ UNCHANGED <<options, text, baseOffset, pass, lastIndex, doubleQuotePositions,
                   scope, jsxElementStack, ancestors, node>>

InitScan ==
    InitWith(TextsUpTo({".", "-", " ", "\"", "'", "5"}, MaxLen),
             {o \in Toggles : /\ o.ellipsis = o.emdash /\ o.emdash = o.endash
                              /\ o.apostrophes = o.primes}, {0})

NextScan == StartScan \/ ExecStep \/ SortAndFilter

\* the engine runs a scan to completion
SpecScan == InitScan /\ [][NextScan]_vars /\ WF_vars(NextScan)

----------------------------------------------------------------------------
(* The rule at work on a traversal.  create (lines 211-229) reads the       *)
(* options; the host then walks the tree, calling the handler of each node  *)
(* it enters or leaves (lines 495-559).  pc is "checked" after a handler     *)
(* that called checkText, "skipped" after a handler that returned before,    *)
(* "walk" after a step without a text handler.  The opening element of an   *)
(* attribute is folded into its element: no gate reads it.                  *)

\* lines 211-229
create(givenOptions) ==
    /\ \E given \in givenOptions :
        /\ options = togglesOf(given)
        /\ scope = scopeOf(given)
    /\ jsxElementStack = <<>>
    /\ ancestors = <<>>
    /\ node = NoNode
    /\ text = <<>>
    /\ baseOffset = 0
    /\ replacements = <<>>
    /\ pass = 0
    /\ lastIndex = 0
    /\ doubleQuotePositions = <<>>
    /\ pc = "walk"

Walking == pc \in {"walk", "checked", "skipped"}

\* node.range[0]
rangeStart(n) == n.range[1]

\* lines 490-493; the reports are attached to n, which the state does not keep
checkText(n, t, start) ==
    /\ text' = t
    /\ baseOffset' = start
    /\ replacements' = findReplacements(t, start, options)
    /\ pc' = "checked"

\* a handler that returns without calling checkText
skip ==
    /\ text' = <<>>
    /\ baseOffset' = 0
    /\ replacements' = <<>>
    /\ pc' = "skipped"

\* a step into node n, which has no text handler
enter(n) ==
    /\ Walking
    /\ Len(ancestors) < MaxDepth
    /\ ancestors' = Append(ancestors, n)
    /\ node' = n
    /\ text' = <<>>
    /\ baseOffset' = 0
    /\ replacements' = <<>>
    /\ pc' = "walk"
    /\ UNCHANGED <<options, scope, pass, lastIndex, doubleQuotePositions>>

\* the places of the traversal: child can be visited next below p.  A
\* tagged template holds its tag, its quasi and the list of its type
\* arguments; a member expression holds its object and its property; an
\* attribute holds its value.  The rule reads the parent of a literal and the
\* parent of the parent of a template chunk, so every node below one of these
\* three is in ancestors.  A node of any other type (the program, a function,
\* a call, an expression container, a template literal, an element, a
\* fragment, an array, a conditional, a list of type arguments, ...) holds
\* any expression or type; statements, the opening element, a spread
\* attribute and the like between it and child may be left out of
\* ancestors, where no test of the rule reads them.
IsExpressionPlace(child, p) ==
    CASE p.type = "TaggedTemplateExpression" ->
            \/ child = p.tag
            \/ child = TemplateLiteral
            \/ child = OtherNode("TSTypeParameterInstantiation")
      [] p.type = "MemberExpression" ->
            child = p.object \/ child = p.property
      [] p.type = "JSXAttribute" ->
            child = p.value
      [] OTHER -> TRUE

\* lines 497-501
EnterJSXElement(name) ==
    /\ IsExpressionPlace(JSXElement(name), parent(ancestors))
    /\ enter(JSXElement(name))
    /\ jsxElementStack' = Append(jsxElementStack, getElementName(name))

EnterJSXFragment ==
    /\ IsExpressionPlace(JSXFragment, parent(ancestors))
    /\ enter(JSXFragment)
    /\ UNCHANGED jsxElementStack

EnterJSXExpressionContainer ==
    /\ \/ parent(ancestors).type \in {"JSXElement", "JSXFragment"}
       \/ /\ parent(ancestors).type = "JSXAttribute"
          /\ parent(ancestors).value = JSXExpressionContainer
    /\ enter(JSXExpressionContainer)
    /\ UNCHANGED jsxElementStack

EnterCallExpression(callee) ==
    /\ IsExpressionPlace(CallExpression(callee), parent(ancestors))
    /\ enter(CallExpression(callee))
    /\ UNCHANGED jsxElementStack

EnterTaggedTemplateExpression(tg) ==
    /\ IsExpressionPlace(TaggedTemplateExpression(tg), parent(ancestors))
    /\ enter(TaggedTemplateExpression(tg))
    /\ UNCHANGED jsxElementStack

EnterTemplateLiteral ==
    /\ IsExpressionPlace(TemplateLiteral, parent(ancestors))
    /\ enter(TemplateLiteral)
    /\ UNCHANGED jsxElementStack

\* a step into a node that has no handler and is no leaf: a member
\* expression, a function expression or a node of any other type
EnterExpression(e) ==
    /\ e.type \notin {"none", "Program", "CallExpression", "TaggedTemplateExpression",
                      "TemplateLiteral", "JSXElement", "JSXFragment",
                      "JSXExpressionContainer", "JSXAttribute", "Literal",
                      "TemplateElement", "JSXText", "Identifier", "JSXIdentifier",
                      "JSXMemberExpression", "JSXNamespacedName"}
    /\ IsExpressionPlace(e, parent(ancestors))
    /\ enter(e)
    /\ UNCHANGED jsxElementStack

\* mutant: leaving a JSX element leaves its name on the stack
ExitNode_NoPop ==
    /\ Walking
    /\ ancestors # <<>>
    /\ ancestors' = SubSeq(ancestors, 1, Len(ancestors) - 1)
    /\ node' = NoNode
    /\ text' = <<>>
    /\ baseOffset' = 0
    /\ replacements' = <<>>
    /\ pc' = "walk"
    /\ UNCHANGED <<options, scope, pass, lastIndex, doubleQuotePositions, jsxElementStack>>

\* lines 502-504, and the way out of every other node
ExitNode ==
    /\ Walking
    /\ ancestors # <<>>
    /\ ancestors' = SubSeq(ancestors, 1, Len(ancestors) - 1)
    /\ jsxElementStack' =
          IF parent(ancestors).type = "JSXElement"
          THEN SubSeq(jsxElementStack, 1, Len(jsxElementStack) - 1)
          ELSE jsxElementStack
    /\ node' = NoNode
    /\ text' = <<>>
    /\ baseOffset' = 0
    /\ replacements' = <<>>
    /\ pc' = "walk"
    /\ UNCHANGED <<options, scope, pass, lastIndex, doubleQuotePositions>>

\* lines 541-546
attrName(n) ==
    IF n.name.type = "JSXIdentifier" THEN n.name.name
    ELSE IF n.name.type = "JSXNamespacedName"
         THEN n.name.namespace.name \o <<":">> \o n.name.name.name
    ELSE <<>>

\* lines 539-558
EnterJSXAttribute(name, value) ==
    LET n == JSXAttribute(name, value)
    IN  /\ Walking
        /\ Len(ancestors) < MaxDepth
        /\ parent(ancestors).type = "JSXElement"
        /\ ancestors' = Append(ancestors, n)
        /\ node' = n
        /\ IF /\ shouldCheckAttribute(scope, attrName(n))
              /\ value.type = "Literal"
              /\ value.typeofValue = "string"
           THEN checkText(value, value.value, rangeStart(value) + 1)
           ELSE skip
        /\ UNCHANGED <<options, scope, pass, lastIndex, doubleQuotePositions, jsxElementStack>>

\* mutant: the Literal handler does not look at the parent of the literal
VisitLiteral_NoAttributeSkip(lit) ==
    /\ Walking
    /\ IsExpressionPlace(lit, parent(ancestors))
    /\ node' = lit
    /\ IF lit.typeofValue # "string" THEN skip
       ELSE IF ~shouldCheckStringLiteral(scope, ancestors) THEN skip
       ELSE checkText(lit, lit.value, rangeStart(lit) + 1)
    /\ UNCHANGED <<options, scope, pass, lastIndex, doubleQuotePositions,
                   jsxElementStack, ancestors>>

\* lines 507-521
VisitLiteral(lit) ==
    /\ Walking
    /\ IsExpressionPlace(lit, parent(ancestors))
    /\ node' = lit
    /\ IF lit.typeofValue # "string" THEN skip
       ELSE IF parent(ancestors).type = "JSXAttribute" THEN skip
       ELSE IF ~shouldCheckStringLiteral(scope, ancestors) THEN skip
       ELSE checkText(lit, lit.value, rangeStart(lit) + 1)
    /\ UNCHANGED <<options, scope, pass, lastIndex, doubleQuotePositions,
                   jsxElementStack, ancestors>>

\* lines 524-530: a chunk of a template literal or of a template literal type
VisitTemplateElement(el) ==
    /\ Walking
    /\ parent(ancestors).type \in {"TemplateLiteral", "TSTemplateLiteralType"}
    /\ node' = el
    /\ IF ~shouldCheckTemplateLiteral(scope, ancestors) THEN skip
       ELSE checkText(el, el.value.raw, rangeStart(el) + 1)
    /\ UNCHANGED <<options, scope, pass, lastIndex, doubleQuotePositions,
                   jsxElementStack, ancestors>>

\* lines 533-536
VisitJSXText(txt) ==
    /\ Walking
    /\ parent(ancestors).type \in {"JSXElement", "JSXFragment"}
    /\ node' = txt
    /\ IF ~shouldCheckChildren(scope, jsxElementStack) THEN skip
       ELSE checkText(txt, txt.value, rangeStart(txt))
    /\ UNCHANGED <<options, scope, pass, lastIndex, doubleQuotePositions,
                   jsxElementStack, ancestors>>

----------------------------------------------------------------------------
(* Traversals of programs with calls and string literals *)

WalkTexts == { <<"a", ".", ".", ".">>, <<"o", "k">> }

StringLiterals == {StringLiteral(v, start) : v \in WalkTexts, start \in 0..MaxBase}

\* t, log, i18n.t, i18n["t"], log().t, log()[0], [...].join and (function () {})
Callees ==
    { Identifier(Name.t),
      Identifier(Name.log),
      MemberExpression(Identifier(Name.i18n), Identifier(Name.t)),
      MemberExpression(Identifier(Name.i18n), StringLiteral(Name.t, 0)),
      MemberExpression(CallExpression(Identifier(Name.log)), Identifier(Name.t)),
      MemberExpression(CallExpression(Identifier(Name.log)), NumberLiteral(0)),
      MemberExpression(OtherNode("ArrayExpression"), Identifier(Name.join)),
      FunctionExpression }

LiteralOptions ==
    {[checkStringLiterals |-> c] :
        c \in {Off, On}
            \cup {OnlyFunctions(fs) :
                    fs \in { {}, {Name.t}, {Name.i18n}, {Name.i18n_t}, {<<>>, Name.log} }}}

InitLiterals == create(LiteralOptions)

NextLiterals ==
    \/ \E c \in Callees : EnterCallExpression(c)
    \/ \E e \in {MemberExpression(Identifier(Name.i18n), StringLiteral(Name.t, 0)),
                  MemberExpression(CallExpression(Identifier(Name.log)), NumberLiteral(0)),
                  MemberExpression(OtherNode("ArrayExpression"), Identifier(Name.join)),
                  OtherNode("ArrayExpression"),
                  OtherNode("TSTypeParameterInstantiation"),
                  FunctionExpression} :
          EnterExpression(e)
    \/ EnterTaggedTemplateExpression(Identifier(Name.gql))
    \/ EnterJSXElement(JSXIdentifier(Name.div))
    \/ \E v \in {StringLiteral(<<"a", ".", ".", ".">>, MaxBase), JSXExpressionContainer} :
          EnterJSXAttribute(JSXIdentifier(Name.title), v)
    \/ EnterJSXExpressionContainer
    \/ \E lit \in {StringLiteral(<<"a", ".", ".", ".">>, MaxBase),
                     StringLiteral(Name.t, 0), NumberLiteral(0)} :
          VisitLiteral(lit)
    \/ ExitNode

SpecLiterals == InitLiterals /\ [][NextLiterals]_vars

----------------------------------------------------------------------------
(* Traversals of programs with template literals *)

\* gql, css, styled.div, gql(), css[`...`] and (c ? ... : ...)
Tags ==
    { Identifier(Name.gql),
      Identifier(Name.css),
      MemberExpression(Identifier(Name.styled), Identifier(Name.div)),
      CallExpression(Identifier(Name.gql)),
      MemberExpression(Identifier(Name.css), TemplateLiteral),
      OtherNode("ConditionalExpression") }

TemplateOptions ==
    { NoOptions }
    \cup {[checkTemplateLiterals |-> c] :
            c \in { Off, On,
                    [is |-> "object"],
                    [is |-> "object", untagged |-> TRUE],
                    [is |-> "object", untagged |-> FALSE],
                    [is |-> "object", tags |-> {Name.gql}],
                    [is |-> "object", tags |-> {Name.gql}, untagged |-> TRUE],
                    [is |-> "object", tags |-> {Name.styled_div, <<>>}, untagged |-> FALSE],
                    [is |-> "object", tags |-> {}, untagged |-> TRUE] }}

InitTemplates == create(TemplateOptions)

NextTemplates ==
    \/ \E tg \in Tags : EnterTaggedTemplateExpression(tg)
    \/ \E e \in Tags \cup {OtherNode("TSTemplateLiteralType"),
                            OtherNode("TSTypeParameterInstantiation")} :
          EnterExpression(e)
    \/ EnterTemplateLiteral
    \/ \E raw \in WalkTexts, start \in 0..MaxBase :
          VisitTemplateElement(TemplateElement(raw, start))
    \/ ExitNode

SpecTemplates == InitTemplates /\ [][NextTemplates]_vars

----------------------------------------------------------------------------
(* Traversals of JSX elements with attributes *)

\* the attributes scanned by default, the ones the default leaves alone, and xlink:href
AttributeNames ==
    {JSXIdentifier(n) :
        n \in { Name.title, Name.alt, Name.label, Name.aria_label, Name.aria_describedby,
                Name.className, Name.id, Name.href, Name.src, Name.key, Name.data_id,
                Name.placeholder }}
    \cup {JSXNamespacedName(JSXIdentifier(Name.xlink), JSXIdentifier(Name.href))}

AttributeOptions ==
    { NoOptions }
    \cup {[checkAttributes |-> c] :
            c \in { Off, On,
                    OnlyAttributes({}),
                    OnlyAttributes({Name.href}),
                    OnlyAttributes({Name.placeholder, Name.xlink_href}) }}

InitAttributes == create(AttributeOptions)

NextAttributes ==
    \/ EnterJSXElement(JSXIdentifier(Name.div))
    \/ \E n \in AttributeNames,
          v \in StringLiterals \cup {JSXExpressionContainer, NoNode,
                                      JSXElement(JSXIdentifier(Name.div))} :
          EnterJSXAttribute(n, v)
    \/ EnterJSXExpressionContainer
    \/ \E lit \in StringLiterals : VisitLiteral(lit)
    \/ ExitNode

SpecAttributes == InitAttributes /\ [][NextAttributes]_vars

----------------------------------------------------------------------------
(* Traversals of JSX elements with text children *)

\* p, P, div, code, pre, UI.P and the name of U+00C9 and U+03A3 (E acute, Sigma)
ElementNames ==
    {JSXIdentifier(n) : n \in {Name.p, Name.P, Name.div, Name.code, Name.pre,
                               <<"U+00C9", "U+03A3">>}}
    \cup {JSXMemberExpression(JSXIdentifier(Name.UI), JSXIdentifier(Name.P))}

ChildrenOptions ==
    { NoOptions }
    \cup {[checkChildren |-> c] :
            c \in { Off, On,
                    OnlyComponents({}),
                    OnlyComponents({Name.p}),
                    OnlyComponents({Name.P}),
                    OnlyComponents({Name.ui_p, Name.div, <<"U+00E9", "U+03C2">>}) }}

InitChildren == create(ChildrenOptions)

NextChildren ==
    \/ \E n \in ElementNames : EnterJSXElement(n)
    \/ EnterJSXFragment
    \/ \E v \in WalkTexts, start \in {0, MaxBase} : VisitJSXText(JSXText(v, start))
    \/ ExitNode

SpecChildren == InitChildren /\ [][NextChildren]_vars

----------------------------------------------------------------------------
(* Traversals under the default options *)

\* "a's 5' - ...-- : a text on which every toggle has something to replace
AllKindsText ==
    <<"\"", "a", "'", "s", " ", "5", "'", " ", "-", " ", ".", ".", ".", "-", "-">>

DefaultTexts == {AllKindsText, <<"o", "k">>}

DefaultLiterals == {StringLiteral(v, start) : v \in DefaultTexts, start \in 0..MaxBase}

InitDefault == create({NoOptions})

NextDefault ==
    \/ \E n \in {JSXIdentifier(Name.p), JSXIdentifier(Name.code),
                 JSXMemberExpression(JSXIdentifier(Name.UI), JSXIdentifier(Name.P))} :
          EnterJSXElement(n)
    \/ EnterJSXFragment
    \/ EnterJSXExpressionContainer
    \/ EnterCallExpression(Identifier(Name.t))
    \/ \E tg \in {Identifier(Name.gql), CallExpression(Identifier(Name.t))} :
          EnterTaggedTemplateExpression(tg)
    \/ EnterTemplateLiteral
    \/ \E e \in {OtherNode("TSTemplateLiteralType"), OtherNode("ArrayExpression"),
                  MemberExpression(OtherNode("ArrayExpression"), Identifier(Name.join))} :
          EnterExpression(e)
    \/ \E n \in {JSXIdentifier(Name.title), JSXIdentifier(Name.className)},
          v \in DefaultLiterals \cup {JSXExpressionContainer} :
          EnterJSXAttribute(n, v)
    \/ \E lit \in DefaultLiterals : VisitLiteral(lit)
    \/ \E raw \in DefaultTexts, start \in 0..MaxBase :
          VisitTemplateElement(TemplateElement(raw, start))
    \/ \E v \in DefaultTexts, start \in 0..MaxBase : VisitJSXText(JSXText(v, start))
    \/ ExitNode

SpecDefault == InitDefault /\ [][NextDefault]_vars

----------------------------------------------------------------------------
(* Traversals of programs whose string literals are given by their source  *)
(* text.  The parser gives a Literal node the source text as raw and the    *)
(* string it denotes as value: each of the escape sequences \\ \' \. of the  *)
(* source is one character of the value, the escaped one.                   *)

\* the string that the body of a string literal denotes
RECURSIVE unescape(_)
unescape(body) ==
    IF body = <<>> THEN <<>>
    ELSE IF Head(body) = "\\"
         THEN <<body[2]>> \o unescape(SubSeq(body, 3, Len(body)))
         ELSE <<Head(body)>> \o unescape(Tail(body))

\* no backslash is the last character of the body
RECURSIVE wellFormed(_)
wellFormed(body) ==
    IF body = <<>> THEN TRUE
    ELSE IF Head(body) = "\\"
         THEN Len(body) >= 2 /\ wellFormed(SubSeq(body, 3, Len(body)))
         ELSE wellFormed(Tail(body))

\* the node of the double-quoted string literal with this body at offset start
SourceLiteral(body, start) ==
    [type |-> "Literal", typeofValue |-> "string",
     value |-> unescape(body),
     raw |-> <<"\"">> \o body \o <<"\"">>,
     range |-> <<start, start + Len(body) + 2>>]

SourceLiterals ==
    {SourceLiteral(body, start) :
        body \in {x \in TextsUpTo({"\\", "'", "."}, MaxLenRaw) : wellFormed(x)},
        start \in {MaxBase}}

SourceOptions ==
    {[checkStringLiterals |-> a] : a \in {Off, On}}
    \cup {[checkStringLiterals |-> a, checkAttributes |-> b] : a \in {Off, On}, b \in {Off, On}}

InitSource == create(SourceOptions)

NextSource ==
    \/ EnterJSXElement(JSXIdentifier(Name.div))
    \/ \E n \in {JSXIdentifier(Name.title), JSXIdentifier(Name.className)},
          v \in {SourceLiteral(<<".", ".", ".">>, 0), JSXExpressionContainer, NoNode} :
          EnterJSXAttribute(n, v)
    \/ EnterJSXExpressionContainer
    \/ \E lit \in SourceLiterals \cup {SourceLiteral(<<".", ".", ".">>, 0)} : VisitLiteral(lit)
    \/ ExitNode

SpecSource == InitSource /\ [][NextSource]_vars

----------------------------------------------------------------------------
(* Vocabulary of the properties *)

\* the span has been scanned and its replacements reported
Scanned == pc = "reported"

\* offsets of the span (0-based) that hold the character c
PositionsOf(c) == {i \in 0..(Len(text) - 1) : CharAt(text, i) = c}

\* neighbours of offset i, "" at the boundary of the span
Before(i) == IF i = 0 THEN "" ELSE CharAt(text, i - 1)
After(i) == IF i = Len(text) - 1 THEN "" ELSE CharAt(text, i + 1)

\* indexes of the reported replacements that start at offset i of the span
EditsAt(i) == {k \in 1..Len(replacements) : replacements[k].start = baseOffset + i}

\* exactly one replacement starts at offset i: one character, message m, text r
OnlyEdit(i, m, r) ==
    /\ Cardinality(EditsAt(i)) = 1
    /\ \A k \in EditsAt(i) :
          replacements[k] = [messageId |-> m, start |-> baseOffset + i,
                             end |-> baseOffset + i + 1, replacement |-> r]

NoEditAt(i) == EditsAt(i) = {}

\* the disposition of the single quote at offset i by the four rules in order
Disposition(i) ==
    IF Before(i) \in WordChars /\ After(i) \in WordChars THEN "apostrophe"
    ELSE IF (Before(i) \in SpaceChars \/ i = 0) /\ After(i) \in DigitChars THEN "year"
    ELSE IF Before(i) \in DigitChars THEN "prime"
    ELSE "quote"

\* the toggle that governs a message
ToggleOf(o, m) ==
    CASE m = "preferEllipsis" -> o.ellipsis
      [] m = "preferEmdash" -> o.emdash
      [] m = "preferEndash" -> o.endash
      [] m = "preferQuotes" -> o.quotes
      [] m = "preferApostrophe" -> o.apostrophes
      [] m = "preferPrime" -> o.primes

\* the replacements of a list that carry one of the messages ms, as a set
EditsOf(reps, ms) == {reps[k] : k \in {j \in 1..Len(reps) : reps[j].messageId \in ms}}

----------------------------------------------------------------------------
\* C1: the reported list is sorted ascending by start, every edit has
\* start < end, and consecutive edits do not overlap (end_i <= start_{i+1}).
C1_SortedDisjoint ==
    Scanned =>
        /\ \A k \in 1..Len(replacements) : replacements[k].start < replacements[k].end
        /\ \A k \in 1..(Len(replacements) - 1) :
              /\ replacements[k].start <= replacements[k + 1].start
              /\ replacements[k].end <= replacements[k + 1].start

\* a scan at a non-zero offset whose candidates were pushed out of order
C1_Witness ==
    /\ Scanned
    /\ baseOffset > 0
    /\ Len(replacements) >= 2
    /\ Candidates(text, baseOffset, options) # replacements

\* C2 as stated: whatever the toggles, the scan of a text to which every
\* reported fix has been applied reports nothing.
C2_Idempotent == (Scanned /\ pass >= 1) => replacements = <<>>

\* C2 amended: the scan of a fixed text reports nothing unless endash and
\* quotes are enabled while apostrophes is disabled.
C2_IdempotentUnlessYearRequoted ==
    (Scanned /\ pass >= 1
        /\ ~(options.endash /\ options.quotes /\ ~options.apostrophes))
    => replacements = <<>>

\* a fixed text that kept a single quote because its toggle is disabled,
\* scanned again with nothing to report
C2_Witness ==
    /\ Scanned
    /\ pass = 1
    /\ ~(options.endash /\ options.quotes /\ ~options.apostrophes)
    /\ ~options.primes
    /\ \E c \in {CHARS.ENDASH, CHARS.EMDASH} : PositionsOf(c) # {}
    /\ PositionsOf("'") # {}
    /\ replacements = <<>>

\* C3: no reported replacement carries a message whose toggle is false.
C3_DisabledNeverEmitted ==
    Scanned =>
        \A k \in 1..Len(replacements) : ToggleOf(options, replacements[k].messageId)

\* a scan that reports something while a disabled kind had a match in the text
C3_Witness ==
    /\ Scanned
    /\ replacements # <<>>
    /\ \E m \in {"preferEllipsis", "preferEmdash", "preferEndash", "preferQuotes",
                 "preferApostrophe", "preferPrime"} :
          /\ ~ToggleOf(options, m)
          /\ EditsOf(findReplacements(text, baseOffset, DefaultToggles), {m}) # {}

\* C4: with all toggles enabled every single quote gets exactly one edit,
\* chosen by the first matching rule: apostrophe, year abbreviation, prime, quote.
C4_SingleQuotePriority ==
    (Scanned /\ options = DefaultToggles) =>
        \A i \in PositionsOf("'") :
            CASE Disposition(i) \in {"apostrophe", "year"} ->
                    OnlyEdit(i, "preferApostrophe", CHARS.RIGHT_SINGLE)
              [] Disposition(i) = "prime" -> OnlyEdit(i, "preferPrime", CHARS.PRIME)
              [] Disposition(i) = "quote" ->
                    /\ Cardinality(EditsAt(i)) = 1
                    /\ \A k \in EditsAt(i) : replacements[k].messageId = "preferQuotes"

\* a single quote between a digit and a word character, reported as apostrophe,
\* next to one that is reported as a prime
C4_Witness ==
    /\ Scanned
    /\ options = DefaultToggles
    /\ \E i \in PositionsOf("'") :
          /\ Before(i) \in DigitChars
          /\ After(i) \in WordChars
          /\ OnlyEdit(i, "preferApostrophe", CHARS.RIGHT_SINGLE)
    /\ \E i \in PositionsOf("'") : OnlyEdit(i, "preferPrime", CHARS.PRIME)

\* C5: a single quote classified as a quote opens (U+2018) exactly when it is
\* at offset 0 or follows whitespace or one of ( [ {, and closes (U+2019) otherwise.
C5_SingleQuoteDirection ==
    (Scanned /\ options.quotes) =>
        \A i \in PositionsOf("'") :
            Disposition(i) = "quote" =>
                IF i = 0 \/ Before(i) \in SpaceChars \/ Before(i) \in {"(", "[", "{"}
                THEN OnlyEdit(i, "preferQuotes", CHARS.LEFT_SINGLE)
                ELSE OnlyEdit(i, "preferQuotes", CHARS.RIGHT_SINGLE)

\* one quote opened after a bracket and one closed after another character
C5_Witness ==
    /\ Scanned
    /\ options.quotes
    /\ \E i \in PositionsOf("'") :
          Before(i) = "(" /\ OnlyEdit(i, "preferQuotes", CHARS.LEFT_SINGLE)
    /\ \E i \in PositionsOf("'") :
          Before(i) = "," /\ OnlyEdit(i, "preferQuotes", CHARS.RIGHT_SINGLE)

\* number of double quotes of the span at offsets <= i
Occurrence(i) == Cardinality({j \in PositionsOf("\"") : j <= i})

\* the double quote at offset i is re-scored as a double prime
Rescored(i) == options.primes /\ Before(i) \in DigitChars

\* C6: with quotes enabled, the k-th double quote of the span that is not
\* re-scored as a double prime is reported as an opening quote when k is odd
\* and as a closing quote when k is even.
C6_DoubleQuoteParity ==
    (Scanned /\ options.quotes) =>
        \A i \in PositionsOf("\"") :
            ~Rescored(i) =>
                OnlyEdit(i, "preferQuotes",
                    IF Occurrence(i) % 2 = 1 THEN CHARS.LEFT_DOUBLE
                    ELSE CHARS.RIGHT_DOUBLE)

\* a third double quote reported as opening after a second one was re-scored
C6_Witness ==
    /\ Scanned
    /\ options.quotes
    /\ \E i, j \in PositionsOf("\"") :
          /\ Occurrence(i) = 2 /\ Rescored(i)
          /\ Occurrence(j) = 3 /\ ~Rescored(j)
          /\ OnlyEdit(j, "preferQuotes", CHARS.LEFT_DOUBLE)

\* the first and the last double quote of a span that holds exactly two
TwoDoubleQuotes == Cardinality(PositionsOf("\"")) = 2
FirstDoubleQuote == CHOOSE i \in PositionsOf("\"") : Occurrence(i) = 1
SecondDoubleQuote == CHOOSE i \in PositionsOf("\"") : Occurrence(i) = 2

\* C7 as stated: with the default toggles, a span with exactly two double
\* quotes gets U+201C on the first and U+201D on the second, whatever the
\* other characters are.
C7_PairBecomesSmart ==
    (Scanned /\ options = DefaultToggles /\ TwoDoubleQuotes) =>
        /\ OnlyEdit(FirstDoubleQuote, "preferQuotes", CHARS.LEFT_DOUBLE)
        /\ OnlyEdit(SecondDoubleQuote, "preferQuotes", CHARS.RIGHT_DOUBLE)

\* C7 amended: the same, for a span in which neither double quote immediately
\* follows a digit.
C7_PairBecomesSmartUnlessAfterDigit ==
    (Scanned /\ options = DefaultToggles /\ TwoDoubleQuotes
        /\ Before(FirstDoubleQuote) \notin DigitChars
        /\ Before(SecondDoubleQuote) \notin DigitChars)
    =>
        /\ OnlyEdit(FirstDoubleQuote, "preferQuotes", CHARS.LEFT_DOUBLE)
        /\ OnlyEdit(SecondDoubleQuote, "preferQuotes", CHARS.RIGHT_DOUBLE)

\* a pair of double quotes around a word, with a character before the pair
C7_Witness ==
    /\ Scanned
    /\ options = DefaultToggles
    /\ TwoDoubleQuotes
    /\ FirstDoubleQuote > 0
    /\ Before(SecondDoubleQuote) \in LetterChars
    /\ OnlyEdit(FirstDoubleQuote, "preferQuotes", CHARS.LEFT_DOUBLE)
    /\ OnlyEdit(SecondDoubleQuote, "preferQuotes", CHARS.RIGHT_DOUBLE)

\* C8: with primes and quotes enabled, every double quote that immediately
\* follows a digit gets exactly one edit, a double prime, whatever its parity.
C8_DoublePrimeOverride ==
    (Scanned /\ options.primes /\ options.quotes) =>
        \A i \in PositionsOf("\"") :
            Before(i) \in DigitChars =>
                OnlyEdit(i, "preferPrime", CHARS.DOUBLE_PRIME)

\* an odd and an even occurrence both re-scored, at a non-zero base offset
C8_Witness ==
    /\ Scanned
    /\ options.primes /\ options.quotes
    /\ baseOffset > 0
    /\ \E i, j \in PositionsOf("\"") :
          /\ Occurrence(i) = 1 /\ Before(i) \in DigitChars
          /\ Occurrence(j) = 2 /\ Before(j) \in DigitChars
          /\ OnlyEdit(i, "preferPrime", CHARS.DOUBLE_PRIME)
          /\ OnlyEdit(j, "preferPrime", CHARS.DOUBLE_PRIME)

\* C9: the apostrophe and prime edits of a text do not depend on the quotes
\* toggle, and its quote edits do not depend on the apostrophes and primes
\* toggles.
C9_QuoteFamilyIndependent ==
    Scanned =>
        /\ \A q \in BOOLEAN :
              EditsOf(findReplacements(text, baseOffset, [options EXCEPT !.quotes = q]),
                      {"preferApostrophe", "preferPrime"})
              = EditsOf(replacements, {"preferApostrophe", "preferPrime"})
        /\ \A a, p \in BOOLEAN :
              EditsOf(findReplacements(text, baseOffset,
                          [options EXCEPT !.apostrophes = a, !.primes = p]),
                      {"preferQuotes"})
              = EditsOf(replacements, {"preferQuotes"})

\* C10: with quotes enabled, a single quote classified as apostrophe or year
\* abbreviation gets no edit when apostrophes is disabled, one classified as
\* prime gets no edit when primes is disabled, and neither is ever reported
\* as a quote.
C10_DisabledNoFallThrough ==
    (Scanned /\ options.quotes) =>
        \A i \in PositionsOf("'") :
            /\ (Disposition(i) \in {"apostrophe", "year"} /\ ~options.apostrophes)
                  => NoEditAt(i)
            /\ (Disposition(i) = "prime" /\ ~options.primes) => NoEditAt(i)
            /\ Disposition(i) # "quote" =>
                  \A k \in EditsAt(i) : replacements[k].messageId # "preferQuotes"

\* a disabled prime and a disabled year abbreviation left alone while a
\* quote of the same span is reported
C10_Witness ==
    /\ Scanned
    /\ options.quotes /\ ~options.primes /\ ~options.apostrophes
    /\ \E i \in PositionsOf("'") : Disposition(i) = "prime" /\ NoEditAt(i)
    /\ \E i \in PositionsOf("'") : Disposition(i) = "year" /\ NoEditAt(i)
    /\ \E i \in PositionsOf("'") : Disposition(i) = "quote" /\ ~NoEditAt(i)

----------------------------------------------------------------------------
\* offset p starts a maximal run of the character c
RunStart(c, p) == CharAt(text, p) = c /\ (p = 0 \/ CharAt(text, p - 1) # c)

\* length of the run of c that starts at offset p
RunLength(c, p) ==
    CHOOSE n \in 1..(Len(text) - p) :
        /\ \A j \in 0..(n - 1) : CharAt(text, p + j) = c
        /\ (p + n = Len(text) \/ CharAt(text, p + n) # c)

\* indexes of the reported replacements with message m
EditsWith(m) == {k \in 1..Len(replacements) : replacements[k].messageId = m}

\* offsets of the span at which a replacement with message m starts
StartsOf(m) == {replacements[k].start - baseOffset : k \in EditsWith(m)}

\* every run of n characters c starting at p carries exactly n \div size edits
\* with message m, at p, p + size, ..., each size characters long and replaced by r
RunsTiled(c, size, m, r) ==
    /\ \A k \in EditsWith(m) :
          /\ replacements[k].end = replacements[k].start + size
          /\ replacements[k].replacement = r
          /\ replacements[k].start - baseOffset \in PositionsOf(c)
    /\ \A p \in PositionsOf(c) :
          RunStart(c, p) =>
              LET n == RunLength(c, p)
                  inRun == {k \in EditsWith(m) :
                              replacements[k].start - baseOffset \in p..(p + n - 1)}
              IN  /\ Cardinality(inRun) = n \div size
                  /\ {replacements[k].start - baseOffset : k \in inRun}
                        = {p + size * j : j \in 0..((n \div size) - 1)}

\* C11: with ellipsis enabled, a maximal run of n periods starting at p yields
\* exactly floor(n/3) ellipsis edits, at p, p+3, ..., each covering three
\* characters and replaced by U+2026.
C11_EllipsisGreedy ==
    (Scanned /\ options.ellipsis) =>
        RunsTiled(".", 3, "preferEllipsis", CHARS.ELLIPSIS)

\* a run of four periods inside the span with one edit, one period left over
C11_Witness ==
    /\ Scanned
    /\ options.ellipsis
    /\ \E p \in PositionsOf(".") :
          /\ p > 0
          /\ RunStart(".", p)
          /\ RunLength(".", p) = 4
          /\ StartsOf("preferEllipsis") = {p}
          /\ Cardinality(EditsWith("preferEllipsis")) = 1

\* C12: with emdash enabled, a maximal run of n hyphens starting at p yields
\* floor(n/2) em dash edits at p, p+2, ..., each covering exactly two hyphens
\* and replaced by U+2014; with emdash disabled there is no em dash edit.
C12_EmdashPairs ==
    Scanned =>
        IF options.emdash
        THEN RunsTiled("-", 2, "preferEmdash", CHARS.EMDASH)
        ELSE EditsWith("preferEmdash") = {}

\* a run of three hyphens between two other characters: one edit, two hyphens long
C12_Witness ==
    /\ Scanned
    /\ options.emdash
    /\ \E p \in PositionsOf("-") :
          /\ p > 0
          /\ RunStart("-", p)
          /\ RunLength("-", p) = 3
          /\ p + 3 < Len(text)
          /\ StartsOf("preferEmdash") = {p}
          /\ \A k \in EditsWith("preferEmdash") : replacements[k].end = baseOffset + p + 2

\* space, hyphen, space at offsets i, i+1, i+2
SpacedHyphenAt(i) ==
    /\ i >= 0
    /\ i + 2 <= Len(text) - 1
    /\ CharAt(text, i) = " " /\ CharAt(text, i + 1) = "-" /\ CharAt(text, i + 2) = " "

\* C13: with endash enabled the en dash edits are the left-to-right
\* non-overlapping occurrences of space-hyphen-space (an occurrence is taken
\* unless the one two characters before it was), each covering the three
\* characters and replaced by U+2013; no other hyphen gets an en dash edit.
C13_EndashSpaced ==
    (Scanned /\ options.endash) =>
        /\ \A i \in 0..(Len(text) - 1) :
              i \in StartsOf("preferEndash")
                  <=> (SpacedHyphenAt(i) /\ (i - 2) \notin StartsOf("preferEndash"))
        /\ \A k \in EditsWith("preferEndash") :
              /\ replacements[k].end = replacements[k].start + 3
              /\ replacements[k].replacement = CHARS.ENDASH
              /\ \A j \in EditsWith("preferEndash") :
                    replacements[j].start = replacements[k].start => j = k

\* a hyphen between a tab and a space gets no edit, the spaced hyphen after
\* it gets one
C13_Witness ==
    /\ Scanned
    /\ options.endash
    /\ \E i \in StartsOf("preferEndash") :
          /\ i >= 2
          /\ CharAt(text, i - 1) = "-"
          /\ CharAt(text, i - 2) = "\t"
          /\ Cardinality(EditsWith("preferEndash")) = 1

\* a handler has just run on a node of this type
Visited(type) == pc \in {"checked", "skipped"} /\ node.type = type

\* the handler that has just run called checkText on text t at offset start
ScannedAs(t, start) ==
    /\ pc = "checked"
    /\ text = t
    /\ baseOffset = start
    /\ replacements = findReplacements(t, start, options)

\* the call expressions among the ancestors whose callee resolves to a name in fs
CallsNamedIn(fs) ==
    {k \in 1..Len(ancestors) :
        /\ ancestors[k].type = "CallExpression"
        /\ getCalleeName(ancestors[k]) \notin {null, <<>>}
        /\ getCalleeName(ancestors[k]) \in fs}

\* C14: a string literal that is not the direct value of a JSX attribute is
\* scanned (its value, at the offset after its opening quote) never when
\* checkStringLiterals is false, always when it is true, and with
\* {onlyFunctions: F} exactly when some call expression among its ancestors,
\* at whatever depth, has a resolved callee name in F; the Literal handler
\* never scans the direct value of a JSX attribute.
C14_StringLiteralGate ==
    (Visited("Literal") /\ node.typeofValue = "string") =>
        IF parent(ancestors).type = "JSXAttribute" THEN pc = "skipped"
        ELSE LET c == scope.checkStringLiterals
                 inScope == \/ c.is = "true"
                            \/ c.is = "object" /\ CallsNamedIn(c.onlyFunctions) # {}
             IN  /\ inScope => ScannedAs(node.value, rangeStart(node) + 1)
                 /\ ~inScope => pc = "skipped" /\ replacements = <<>>

\* a literal scanned because of an outer call only: the innermost call is not listed
C14_Witness ==
    /\ Visited("Literal")
    /\ scope.checkStringLiterals.is = "object"
    /\ Len(ancestors) = 3
    /\ parent(ancestors).type = "CallExpression"
    /\ CallsNamedIn(scope.checkStringLiterals.onlyFunctions) = {1}
    /\ pc = "checked"
    /\ replacements # <<>>

\* the call expressions among the ancestors
Calls == {k \in 1..Len(ancestors) : ancestors[k].type = "CallExpression"}

\* the callee of i18n.t(...)
Callee_i18n_t == MemberExpression(Identifier(Name.i18n), Identifier(Name.t))

\* C15: the callee name of the member call i18n.t(...) is "i18n.t", the
\* identifier names of the chain joined with '.', and it is matched whole:
\* with {onlyFunctions: F}, a string literal whose only enclosing call is
\* i18n.t(...) is scanned if and only if F contains "i18n.t"; F with only
\* "t" or only "i18n" leaves it unscanned.
C15_WholeCalleeName ==
    ( /\ Visited("Literal") /\ node.typeofValue = "string"
      /\ parent(ancestors).type # "JSXAttribute"
      /\ scope.checkStringLiterals.is = "object"
      /\ Cardinality(Calls) = 1
      /\ \A k \in Calls : ancestors[k].callee = Callee_i18n_t ) =>
        /\ \A k \in Calls :
              getCalleeName(ancestors[k]) = <<"i", "1", "8", "n", ".", "t">>
        /\ pc = "checked" <=>
              <<"i", "1", "8", "n", ".", "t">> \in scope.checkStringLiterals.onlyFunctions
        /\ scope.checkStringLiterals.onlyFunctions \in {{<<"t">>}, {<<"i", "1", "8", "n">>}}
              => pc = "skipped" /\ replacements = <<>>

\* a literal with matches inside i18n.t(...) scanned under onlyFunctions: ["i18n.t"]
C15_Witness ==
    /\ Visited("Literal")
    /\ Cardinality(Calls) = 1
    /\ parent(ancestors) = CallExpression(Callee_i18n_t)
    /\ scope.checkStringLiterals = OnlyFunctions({<<"i", "1", "8", "n", ".", "t">>})
    /\ pc = "checked"
    /\ replacements # <<>>

\* the template literal of the element just visited is the quasi of a tagged template
Tagged ==
    /\ Len(ancestors) >= 2
    /\ parent(ancestors).type = "TemplateLiteral"
    /\ ancestors[Len(ancestors) - 1].type = "TaggedTemplateExpression"

\* C16: a template chunk is scanned (its raw text, at the offset after the
\* opening delimiter) never when checkTemplateLiterals is false and always
\* when it is true; with an object, a chunk of a tagged template is scanned
\* exactly when tags is given and holds the tag's name, whatever untagged is,
\* and a chunk of an untagged template exactly when untagged is true.  A
\* template literal type has no tag: its chunks are chunks of an untagged
\* template.
C16_TemplateGate ==
    Visited("TemplateElement") =>
        LET c == scope.checkTemplateLiterals
            inScope ==
                \/ c.is = "true"
                \/ /\ c.is = "object"
                   /\ IF Tagged
                      THEN /\ "tags" \in DOMAIN c
                           /\ getTagName(ancestors[Len(ancestors) - 1]) \in c.tags
                      ELSE "untagged" \in DOMAIN c /\ c.untagged
        IN  /\ inScope => ScannedAs(node.value.raw, rangeStart(node) + 1)
            /\ ~inScope => pc = "skipped" /\ replacements = <<>>

\* the attribute just entered has a string literal as its value
StringValued == node.value.type = "Literal" /\ node.value.typeofValue = "string"

\* the name of the attribute just entered, ns:name for a namespaced one
NameOfAttribute ==
    IF node.name.type = "JSXNamespacedName"
    THEN node.name.namespace.name \o <<":">> \o node.name.name.name
    ELSE node.name.name

\* C17: the value of an attribute is scanned (at the offset after its opening
\* quote) only if it is a string literal, and then never when checkAttributes
\* is false, always when it is true, and with {onlyAttributes: A} exactly when
\* the attribute's name, ns:name for a namespaced one, is in A; without the
\* option A is title, alt, label, aria-label, aria-describedby, so that the
\* values of className, id, href, src, key, data-id and placeholder give no
\* edits.
C17_AttributeGate ==
    Visited("JSXAttribute") =>
        LET c == scope.checkAttributes
            inScope == \/ c.is = "true"
                       \/ c.is = "object" /\ NameOfAttribute \in c.onlyAttributes
        IN  /\ (StringValued /\ inScope) =>
                  ScannedAs(node.value.value, rangeStart(node.value) + 1)
            /\ ~(StringValued /\ inScope) => pc = "skipped" /\ replacements = <<>>
            /\ scope = scopeOf(NoOptions) =>
                  /\ c.is = "object"
                  /\ c.onlyAttributes =
                        { <<"t", "i", "t", "l", "e">>,
                          <<"a", "l", "t">>,
                          <<"l", "a", "b", "e", "l">>,
                          <<"a", "r", "i", "a", "-", "l", "a", "b", "e", "l">>,
                          <<"a", "r", "i", "a", "-", "d", "e", "s", "c", "r", "i", "b", "e",
                            "d", "b", "y">> }
                  /\ NameOfAttribute \in
                        { Name.className, Name.id, Name.href, Name.src, Name.key,
                          Name.data_id, Name.placeholder, Name.xlink_href }
                        => replacements = <<>>

\* the namespaced attribute xlink:href scanned because the list holds "xlink:href"
C17_Witness ==
    /\ Visited("JSXAttribute")
    /\ node.name.type = "JSXNamespacedName"
    /\ scope.checkAttributes.is = "object"
    /\ <<"x", "l", "i", "n", "k", ":", "h", "r", "e", "f">> \in scope.checkAttributes.onlyAttributes
    /\ pc = "checked"
    /\ replacements # <<>>

\* the JSX elements among the ancestors
Elements == {k \in 1..Len(ancestors) : ancestors[k].type = "JSXElement"}

\* the name of the JSX element ancestors[k]
ElementNameAt(k) == getElementName(ancestors[k].openingElement.name)

\* the innermost of the JSX elements among the ancestors
Innermost == CHOOSE k \in Elements : \A j \in Elements : j <= k

\* the element names of these traversals in lower case: P is p, UI.P is ui.p,
\* the name of U+00C9 and U+03A3 is U+00E9 and the final sigma U+03C2, and
\* p, div, code and pre are themselves
LowerCased(name) ==
    CASE name = <<"P">> -> <<"p">>
      [] name = <<"U", "I", ".", "P">> -> <<"u", "i", ".", "p">>
      [] name = <<"U+00C9", "U+03A3">> -> <<"U+00E9", "U+03C2">>
      [] OTHER -> name

\* C18: with checkChildren {onlyComponents: N}, a JSX text is scanned (at its
\* own offset) if and only if it has an enclosing JSX element and the name of
\* the innermost one, or that name in lower case, is in N; the elements
\* further out do not count: with N = [p], text in a div is not scanned even
\* inside a p, and text in a p is scanned even inside a div.
C18_InnermostElement ==
    (Visited("JSXText") /\ scope.checkChildren.is = "object") =>
        LET N == scope.checkChildren.onlyComponents
            inScope == /\ Elements # {}
                       /\ \/ ElementNameAt(Innermost) \in N
                          \/ LowerCased(ElementNameAt(Innermost)) \in N
        IN  /\ inScope => ScannedAs(node.value, rangeStart(node))
            /\ ~inScope => pc = "skipped" /\ replacements = <<>>
            /\ N = {<<"p">>} =>
                  /\ parent(ancestors) = JSXElement(JSXIdentifier(<<"d", "i", "v">>))
                        => pc = "skipped"
                  /\ parent(ancestors) = JSXElement(JSXIdentifier(<<"p">>))
                        => pc = "checked"

\* text with matches in a div nested in a p, left alone under onlyComponents: ["p"]
C18_Witness ==
    /\ Visited("JSXText")
    /\ scope.checkChildren = OnlyComponents({<<"p">>})
    /\ Len(ancestors) = 2
    /\ ancestors[1] = JSXElement(JSXIdentifier(<<"p">>))
    /\ ancestors[2] = JSXElement(JSXIdentifier(<<"d", "i", "v">>))
    /\ node.value = <<"a", ".", ".", ".">>
    /\ pc = "skipped"

\* the text just visited is nested, at some depth, in a code or pre element
InsideExempt ==
    \E k \in Elements :
        ElementNameAt(k) \in {<<"c", "o", "d", "e">>, <<"p", "r", "e">>}

\* C20: without options, JSX text nested at any depth inside a code or pre
\* element, also inside another element in between, produces no edits.
C20_ExemptElements ==
    (Visited("JSXText") /\ scope = scopeOf(NoOptions) /\ InsideExempt) =>
        replacements = <<>>

\* the message ids of the edits reported by the last handler
MessageIds == {replacements[k].messageId : k \in 1..Len(replacements)}

\* C19 as stated: when no option is given, no string literal and no template
\* chunk, tagged or not, produces an edit whatever it holds, the string
\* literal that is the value of a JSX attribute included; a JSX text is
\* scanned whatever the elements around it; and each of the six toggles is
\* enabled.
C19_NoStringLiteralEdited ==
    /\ options = [ellipsis |-> TRUE, emdash |-> TRUE, endash |-> TRUE,
                  quotes |-> TRUE, apostrophes |-> TRUE, primes |-> TRUE]
    /\ (Visited("Literal") \/ Visited("TemplateElement")) => replacements = <<>>
    /\ (Visited("JSXAttribute") /\ StringValued) => replacements = <<>>
    /\ Visited("JSXText") => ScannedAs(node.value, rangeStart(node))

\* C19, amended: when no option is given, the Literal handler and the
\* TemplateElement handler never scan, so a string literal in any place and a
\* chunk of a template literal, tagged or not, or of a template literal type
\* produce no edit there whatever they hold; the string literal that is the
\* value of a JSX attribute is scanned by the JSXAttribute handler (its value,
\* at the offset after its opening quote) exactly when the attribute is
\* named title, alt, label, aria-label or aria-describedby; a JSX text is
\* scanned whatever the elements around it; and each of the six toggles is
\* enabled, so that a text with one occurrence of every kind gets an edit of
\* every kind.
C19_DefaultScope ==
    /\ options = [ellipsis |-> TRUE, emdash |-> TRUE, endash |-> TRUE,
                  quotes |-> TRUE, apostrophes |-> TRUE, primes |-> TRUE]
    /\ (Visited("Literal") \/ Visited("TemplateElement")) =>
          pc = "skipped" /\ replacements = <<>>
    /\ (Visited("JSXAttribute") /\ StringValued) =>
          IF NameOfAttribute \in { <<"t", "i", "t", "l", "e">>, <<"a", "l", "t">>,
                                   <<"l", "a", "b", "e", "l">>,
                                   <<"a", "r", "i", "a", "-", "l", "a", "b", "e", "l">>,
                                   <<"a", "r", "i", "a", "-", "d", "e", "s", "c", "r", "i", "b",
                                     "e", "d", "b", "y">> }
          THEN /\ ScannedAs(node.value.value, rangeStart(node.value) + 1)
               /\ node.value.value = AllKindsText => Len(replacements) = 6
          ELSE pc = "skipped" /\ replacements = <<>>
    /\ Visited("JSXText") =>
          /\ ScannedAs(node.value, rangeStart(node))
          /\ node.value = AllKindsText =>
                MessageIds = {"preferQuotes", "preferApostrophe", "preferPrime",
                              "preferEndash", "preferEllipsis", "preferEmdash"}

\* a text with one match of every kind scanned in a UI.P element that is
\* nested in another node: six edits, one of each kind
C19_Witness ==
    /\ Visited("JSXText")
    /\ node.value = AllKindsText
    /\ Len(ancestors) >= 2
    /\ jsxElementStack = <<<<"U", "I", ".", "P">>>>
    /\ Cardinality(MessageIds) = 6
    /\ Len(replacements) = 6

\* C23: every returned edit follows the kind table: preferEllipsis covers
\* three periods and gives U+2026; preferEmdash covers two hyphens and gives
\* U+2014; preferEndash covers space, hyphen, space and gives U+2013;
\* preferApostrophe covers one ' and gives U+2019; preferPrime covers one '
\* and gives U+2032 or one " and gives U+2033; preferQuotes covers one ' and
\* gives U+2018 or U+2019, or one " and gives U+201C or U+201D.
C23_KindTable ==
    Scanned =>
        \A k \in 1..Len(replacements) :
            LET r == replacements[k]
                c == SubSeq(text, r.start - baseOffset + 1, r.end - baseOffset)
                n == r.end - r.start
            IN  CASE r.messageId = "preferEllipsis" ->
                        n = 3 /\ c = <<".", ".", ".">> /\ r.replacement = "U+2026"
                  [] r.messageId = "preferEmdash" ->
                        n = 2 /\ c = <<"-", "-">> /\ r.replacement = "U+2014"
                  [] r.messageId = "preferEndash" ->
                        n = 3 /\ c = <<" ", "-", " ">> /\ r.replacement = "U+2013"
                  [] r.messageId = "preferApostrophe" ->
                        n = 1 /\ c = <<"'">> /\ r.replacement = "U+2019"
                  [] r.messageId = "preferPrime" ->
                        /\ n = 1
                        /\ \/ c = <<"'">> /\ r.replacement = "U+2032"
                           \/ c = <<"\"">> /\ r.replacement = "U+2033"
                  [] r.messageId = "preferQuotes" ->
                        /\ n = 1
                        /\ \/ c = <<"'">> /\ r.replacement \in {"U+2018", "U+2019"}
                           \/ c = <<"\"">> /\ r.replacement \in {"U+201C", "U+201D"}
                  [] OTHER -> FALSE

\* a span with an opening double quote and a double prime: "5"
C23_Witness ==
    /\ Scanned
    /\ \E j, k \in 1..Len(replacements) :
          /\ replacements[j].messageId = "preferQuotes"
          /\ replacements[j].replacement = "U+201C"
          /\ replacements[k].messageId = "preferPrime"
          /\ replacements[k].replacement = "U+2033"

\* C24: the scan of a span, the empty span included, returns a list of
\* edits, each inside the span; a ' at the first offset has no character before it (it is never a
\* prime) and a ' at the last offset has none after it (it is never an
\* apostrophe); with the six toggles disabled, or for a span without any of
\* . - ' ", the list is empty.
C24_NoFailure ==
    Scanned =>
        /\ \A k \in 1..Len(replacements) :
              /\ baseOffset <= replacements[k].start
              /\ replacements[k].start < replacements[k].end
              /\ replacements[k].end <= baseOffset + Len(text)
        /\ \A k \in EditsAt(0) :
              CharAt(text, 0) = "'" => replacements[k].messageId # "preferPrime"
        /\ \A k \in EditsAt(Len(text) - 1) :
              CharAt(text, Len(text) - 1) = "'"
                  => replacements[k].messageId # "preferApostrophe"
        /\ (\A m \in {"preferEllipsis", "preferEmdash", "preferEndash", "preferQuotes",
                      "preferApostrophe", "preferPrime"} : ~ToggleOf(options, m))
              => replacements = <<>>
        /\ (\A c \in {".", "-", "'", "\""} : PositionsOf(c) = {})
              => replacements = <<>>

\* a span that begins and ends with a single quote, both reported: 'a'
C24_Witness ==
    /\ Scanned
    /\ Len(text) = 3
    /\ CharAt(text, 0) = "'"
    /\ CharAt(text, 2) = "'"
    /\ EditsAt(0) # {}
    /\ EditsAt(2) # {}

\* the message and replacement of the edits that a scan of t reports at offset i
KindsAt(t, opts, i) ==
    LET reps == findReplacements(t, 0, opts)
    IN  {<<reps[k].messageId, reps[k].replacement>> :
            k \in {j \in 1..Len(reps) : reps[j].start = i}}

\* the text made of the character at offset i and the neighbours it has
Window(i) ==
    (IF i = 0 THEN <<>> ELSE <<Before(i)>>)
        \o <<CharAt(text, i)>>
        \o (IF i = Len(text) - 1 THEN <<>> ELSE <<After(i)>>)

\* C25: what the scan reports at a single quote (nothing, or one message and
\* replacement) depends on the toggles, the character before it and the
\* character after it only: it is what the scan reports, under the same
\* toggles, for the text that holds nothing but the quote and these
\* neighbours, so that two quotes with the same neighbours in any two texts
\* are reported alike.
C25_SingleQuoteLocal ==
    Scanned =>
        \A i \in PositionsOf("'") :
            /\ Cardinality(EditsAt(i)) <= 1
            /\ {<<replacements[k].messageId, replacements[k].replacement>> : k \in EditsAt(i)}
                  = KindsAt(Window(i), options, IF i = 0 THEN 0 ELSE 1)

\* a reported single quote inside a span of four characters, which has more
\* than the quote and its two neighbours
C25_Witness ==
    /\ Scanned
    /\ Len(text) = 4
    /\ \E i \in PositionsOf("'") :
          /\ i = 1
          /\ CharAt(text, 3) \in {"'", "\"", "5"}
          /\ EditsAt(i) # {}

\* C27: the candidates that the sub-scans produce for a span are pairwise
\* disjoint and start at pairwise distinct offsets, so the sweep drops none:
\* the returned list is the sorted list of all the candidates.
C27_SweepDropsNothing ==
    Scanned =>
        LET c == Candidates(text, baseOffset, options)
        IN  /\ \A j, k \in 1..Len(c) :
                  j # k => /\ c[j].start # c[k].start
                           /\ c[j].end <= c[k].start \/ c[k].end <= c[j].start
            /\ Len(replacements) = Len(c)
            /\ {replacements[k] : k \in 1..Len(replacements)} = {c[k] : k \in 1..Len(c)}
            /\ replacements = SortByStart(c)

\* two candidates that touch, the first a double prime written over a quote
\* edit, both returned: 5"'
C27_Witness ==
    /\ Scanned
    /\ \E k \in 1..(Len(replacements) - 1) :
          /\ replacements[k].replacement = "U+2033"
          /\ replacements[k].end = replacements[k + 1].start

\* C28: with the six toggles enabled, every ' and every " of a scanned span
\* is the start of exactly one returned edit, one character long, and no
\* other edit covers it; the span with the edits applied holds no ' and no ".
C28_EveryQuoteReplaced ==
    (Scanned /\ options = DefaultToggles) =>
        /\ \A i \in (PositionsOf("'") \cup PositionsOf("\"")) :
              /\ Cardinality(EditsAt(i)) = 1
              /\ \A k \in 1..Len(replacements) :
                    (replacements[k].start <= baseOffset + i
                        /\ baseOffset + i < replacements[k].end)
                    => /\ k \in EditsAt(i)
                       /\ replacements[k].end = replacements[k].start + 1
        /\ LET fixed == applyFixes(text, baseOffset, replacements)
           IN  \A j \in 1..Len(fixed) : fixed[j] \notin {"'", "\""}

\* a span of three straight quotes of both kinds and a digit, with three edits
C28_Witness ==
    /\ Scanned
    /\ options = DefaultToggles
    /\ Len(text) = 4
    /\ Cardinality((PositionsOf("'") \cup PositionsOf("\""))) = 3
    /\ PositionsOf("'") # {}
    /\ PositionsOf("\"") # {}
    /\ PositionsOf("5") # {}
    /\ Len(replacements) = 3

\* C30: the edits of a span scanned at baseOffset b are the edits of the same
\* span scanned at offset 0, in the same number and order, with the same
\* messages and replacements, and with b added to every start and end; this
\* holds for a double prime too, which is written over the quote edit found
\* at the rebased start.
C30_UniformRebase ==
    Scanned =>
        LET atZero == findReplacements(text, 0, options)
        IN  /\ Len(replacements) = Len(atZero)
            /\ \A k \in 1..Len(atZero) :
                  replacements[k] =
                      [messageId   |-> atZero[k].messageId,
                       start       |-> atZero[k].start + baseOffset,
                       end         |-> atZero[k].end + baseOffset,
                       replacement |-> atZero[k].replacement]

\* a span scanned at a positive offset whose edits include a double prime
C30_Witness ==
    /\ Scanned
    /\ baseOffset > 0
    /\ Len(replacements) >= 2
    /\ \E k \in 1..Len(replacements) :
          /\ replacements[k].replacement = "U+2033"
          /\ replacements[k].start > baseOffset

\* C22: at every point of a traversal the element stack holds the names of
\* the JSX elements that are open, outermost first: its depth is their
\* number, at a JSX text its top is the name of the innermost enclosing
\* element (a child element that was closed before the text is no longer on
\* it), after an element is left the stack is what it was before the element
\* was entered, and when nothing is open the stack is empty.
C22_StackDiscipline ==
    Walking =>
        /\ Len(jsxElementStack) = Cardinality(Elements)
        /\ \A k \in Elements :
              jsxElementStack[Cardinality({j \in Elements : j <= k})] = ElementNameAt(k)
        /\ (Visited("JSXText") /\ Elements # {}) =>
              getCurrentElementName(jsxElementStack) = ElementNameAt(Innermost)
        /\ ancestors = <<>> => jsxElementStack = <<>>

\* a child of a fragment inside a p has just been left: the stack holds p
\* alone again
C22_Witness ==
    /\ pc = "walk"
    /\ node = NoNode
    /\ ancestors = <<JSXElement(JSXIdentifier(<<"p">>)), JSXFragment>>
    /\ jsxElementStack = <<<<"p">>>>

\* C29: a string literal that is the direct value of a JSX attribute is never
\* scanned by the Literal handler, whatever checkStringLiterals is; the
\* JSXAttribute handler scans it exactly when checkAttributes admits the
\* attribute and then reports each match once (the starts of its reports are
\* pairwise distinct), so that with both options enabled every match is
\* reported once and with checkAttributes false there is no edit for it.
C29_AttributeValueOnce ==
    /\ (Visited("Literal") /\ parent(ancestors).type = "JSXAttribute") =>
          pc = "skipped" /\ replacements = <<>>
    /\ (Visited("JSXAttribute") /\ StringValued) =>
          /\ scope.checkAttributes.is = "false" => pc = "skipped" /\ replacements = <<>>
          /\ scope.checkAttributes.is = "true" =>
                ScannedAs(node.value.value, rangeStart(node.value) + 1)
          /\ \A j, k \in 1..Len(replacements) :
                j # k => replacements[j].start # replacements[k].start

\* the Literal handler has left the value of a title attribute alone, with
\* checkStringLiterals and checkAttributes both true and matches in the value
C29_Witness ==
    /\ Visited("Literal")
    /\ parent(ancestors).type = "JSXAttribute"
    /\ scope.checkStringLiterals.is = "true"
    /\ scope.checkAttributes.is = "true"
    /\ node.value = <<".", ".", ".">>
    /\ pc = "skipped"

\* the ASCII approximation that an edit replaces
ApproximationOf(r) ==
    CASE r.messageId = "preferEllipsis" -> <<".", ".", ".">>
      [] r.messageId = "preferEmdash" -> <<"-", "-">>
      [] r.messageId = "preferEndash" -> <<" ", "-", " ">>
      [] r.replacement \in {"U+201C", "U+201D", "U+2033"} -> <<"\"">>
      [] OTHER -> <<"'">>

\* the characters of the source file in the range [r.start, r.end) of an edit
\* of the literal just visited, whose source text begins at its range start
SourceCovered(r) ==
    SubSeq(node.raw, r.start - rangeStart(node) + 1, r.end - rangeStart(node))

\* C21: for every scanned string literal, whatever escape sequences its
\* source text has, the characters of the source file in the range of each
\* of its edits are the ASCII approximation that the edit replaces.
C21_RangesAddressSource ==
    (Visited("Literal") /\ pc = "checked" /\ "raw" \in DOMAIN node) =>
        \A k \in 1..Len(replacements) :
            SourceCovered(replacements[k]) = ApproximationOf(replacements[k])

\* C26: the scan of a span terminates: every iteration of a scan loop that
\* finds a match leaves lastIndex beyond where it was, each loop is left for
\* the next and never entered again, and after the sort and the sweep the
\* scan reaches its return, with the list that findReplacements gives.
C26_ScanTerminates ==
    /\ [][ /\ (pc' = pc /\ pc # "reported") => lastIndex' > lastIndex
           /\ pc' # pc => pc' # "visit" ]_vars
    /\ <>(pc = "reported")
    /\ [](pc = "reported" => replacements = findReplacements(text, baseOffset, options))

\* a scan that has returned after iterations of more than one loop
C26_Witness ==
    /\ pc = "reported"
    /\ \E j, k \in 1..Len(replacements) :
          /\ replacements[j].messageId = "preferEmdash"
          /\ replacements[k].messageId = "preferQuotes"

====
